---- MODULE Spec2Model ----
(***************************************************************************)
(* Delta synchronisation, download ledger and activity ingestion of the    *)
(* mechanic-manual API (routes/sync.routes.js, routes/module.routes.js,    *)
(* routes/mecaAid.routes.js, routes/activity.routes.js, middleware/auth.js)*)
(*                                                                         *)
(* The database tables are the state.  Every route handler is an async     *)
(* function: between two awaited db.execute calls other requests run, so a *)
(* handler with several queries is a sequence of steps of one worker.      *)
(***************************************************************************)
EXTENDS Integers, Sequences, FiniteSets, TLC

\* ------------------------------------------------------------------ bounds
MaxTime == 2          \* the clock runs over 1..MaxTime (0 is the epoch)
NumModules == 1       \* rows the modules table can grow to
NumAids == 1          \* rows the meca_aids table can grow to
MaxVersion == 2       \* module updates stop at this version
MaxLogs == 1          \* sync/full requests of a run with content authoring
MaxActivities == 3    \* user_activities rows of a run with any number of requests
MaxDownloads == 2     \* download requests of a run
MaxBatch == 3         \* longest activities array of a request
NumStepAids == 2      \* diagnostic aids of a run that creates them with steps
MaxSteps == 2         \* longest steps array of a created diagnostic aid

\* ------------------------------------------------------------- value sets
NULL == "null"                \* JS null / SQL NULL
UNDEF == "undefined"          \* JS undefined (absent property, header or query key)
UNKNOWN == "unknown"          \* the device sentinel of the ledger routes

Users == {"u1", "u2"}
DeviceIds == {"d1"}
DeviceHeaders == DeviceIds \cup {UNDEF}     \* the X-Device-ID header, possibly absent
Workers == {"w1", "w2"}
Times == 0..MaxTime

\* A query-string value of lastSync: absent, the empty string, or the ISO-8601
\* text of an instant (Date.prototype.toISOString of t milliseconds).
LastSyncInputs ==
    {[tag |-> "absent", t |-> 0], [tag |-> "empty", t |-> 0]}
        \cup {[tag |-> "iso", t |-> t] : t \in Times}

VARIABLES
    now,                \* the database server's clock
    modules,            \* table modules: sequence of rows, id = index
    mecaAids,           \* table meca_aids: sequence of rows, id = index
    mecaAidSteps,       \* table meca_aid_steps: set of rows
    downloadedModules,  \* table downloaded_modules: set of rows
    syncLogs,           \* table sync_logs: sequence of rows in insertion order
    userActivities,     \* table user_activities: sequence of rows in insertion order
    pc,                 \* per worker: the await its handler is suspended at
    loc,                \* per worker: the handler's local variables
    resp                \* per worker: the last response sent

vars == <<now, modules, mecaAids, mecaAidSteps, downloadedModules, syncLogs,
          userActivities, pc, loc, resp>>

tables == <<modules, mecaAids, mecaAidSteps, downloadedModules, syncLogs, userActivities>>

NoLoc == [op |-> "none"]
NoResp == [kind |-> "none"]

\* ------------------------------------------------------------ JS helpers
\* JS truthiness of a string-or-absent value: undefined, null and "" are falsy.
Truthy(v) == v \notin {UNDEF, NULL, ""}

\* a || b
Or(a, b) == IF Truthy(a) THEN a ELSE b

\* middleware/auth.js: req.deviceId = req.headers["x-device-id"] || null
ReqDeviceId(header) == Or(header, NULL)

\* new Date(text) for an ISO-8601 text: the instant it denotes.
NewDate(ls) == ls.t

\* Variant: a missing lastSync read as "now" instead of the epoch.
SinceDate_Now(ls) == IF ls.tag = "iso" THEN NewDate(ls) ELSE now

\* lastSync ? new Date(lastSync) : new Date(0)       (sync.routes.js /full)
SinceDate(ls) == IF ls.tag = "iso" THEN NewDate(ls) ELSE 0

\* COALESCE(?, column) over a boolean column, parameter bound as null/true/false
Coalesce(p, col) == IF p = NULL THEN col ELSE (p = "true")

\* ---------------------------------------------------------------- tables
\* Column defaults of the content tables: version starts at 1, and updated_at
\* is set to the current time by every statement that changes the row.
DefaultVersion == 1
CurrentTimestamp == now

ModuleIdsNow == 1..Len(modules)
AidIdsNow == 1..Len(mecaAids)

\* SELECT m.* ... : a result row of the modules table
ModuleRow(id) ==
    [id |-> id, version |-> modules[id].version, updatedAt |-> modules[id].updatedAt]

AidRow(id) ==
    [id |-> id, version |-> mecaAids[id].version, updatedAt |-> mecaAids[id].updatedAt]

\* Variant: the comparison written >= instead of >.
FullModulesQuery_Inclusive(sinceDate) ==
    {ModuleRow(id) : id \in {i \in ModuleIdsNow :
        modules[i].isActive /\ modules[i].updatedAt >= sinceDate}}

\* WHERE m.is_active = true AND m.updated_at > ?          (sync.routes.js /full)
FullModulesQuery(sinceDate) ==
    {ModuleRow(id) : id \in {i \in ModuleIdsNow :
        modules[i].isActive /\ modules[i].updatedAt > sinceDate}}

\* Variant: the delta computed from the caller's last checkpoint in sync_logs
\* when there is one, instead of from the lastSync of the request.
FullMecaAidsQuery_FromCheckpoint(sinceDate) ==
    LET since == IF Len(syncLogs) > 0 THEN syncLogs[Len(syncLogs)].lastSyncAt
                 ELSE sinceDate
    IN {AidRow(id) : id \in {i \in AidIdsNow :
            mecaAids[i].isActive /\ mecaAids[i].updatedAt > since}}

\* WHERE ma.is_active = true AND ma.updated_at > ?        (sync.routes.js /full)
FullMecaAidsQuery(sinceDate) ==
    {AidRow(id) : id \in {i \in AidIdsNow :
        mecaAids[i].isActive /\ mecaAids[i].updatedAt > sinceDate}}

\* Variant: the count taken over inactive rows too.
CheckModulesCount_AllRows(sinceDate) ==
    Cardinality({i \in ModuleIdsNow : modules[i].updatedAt > sinceDate})

\* SELECT COUNT(*) FROM modules WHERE is_active = true AND updated_at > ?  (/check)
CheckModulesCount(sinceDate) ==
    Cardinality({i \in ModuleIdsNow :
        modules[i].isActive /\ modules[i].updatedAt > sinceDate})

\* SELECT COUNT(*) FROM meca_aids WHERE is_active = true AND updated_at > ? (/check)
CheckMecaAidsCount(sinceDate) ==
    Cardinality({i \in AidIdsNow :
        mecaAids[i].isActive /\ mecaAids[i].updatedAt > sinceDate})

\* ------------------------------------------------------------------ Init
Init ==
    /\ now = 1
    /\ modules = <<>>
    /\ mecaAids = <<>>
    /\ mecaAidSteps = {}
    /\ downloadedModules = {}
    /\ syncLogs = <<>>
    /\ userActivities = <<>>
    /\ pc = [w \in Workers |-> "idle"]
    /\ loc = [w \in Workers |-> NoLoc]
    /\ resp = [w \in Workers |-> NoResp]

\* The database clock advances.
Tick ==
    /\ now < MaxTime
    /\ now' = now + 1
    /\ UNCHANGED <<tables, pc, loc, resp>>

\* ------------------------------------------------ content authoring (admin)
\* POST /api/modules: INSERT INTO modules (...); version, is_active and
\* updated_at take the column defaults.
CreateModule(isDownloadable) ==
    /\ Len(modules) < NumModules
    /\ modules' = Append(modules,
            [isActive |-> TRUE, isDownloadable |-> (isDownloadable # "false"),
             version |-> DefaultVersion, updatedAt |-> CurrentTimestamp])
    /\ UNCHANGED <<now, mecaAids, mecaAidSteps, downloadedModules, syncLogs, userActivities,
                   pc, loc, resp>>

\* Variant: the update lowers the version.
UpdateModule_Decrement(uuid, isActive, isDownloadable) ==
    /\ uuid \in ModuleIdsNow
    /\ modules[uuid].version < MaxVersion
    /\ modules' = [modules EXCEPT ![uuid] =
            [isActive |-> Coalesce(isActive, @.isActive),
             isDownloadable |-> Coalesce(isDownloadable, @.isDownloadable),
             version |-> @.version - 1,
             updatedAt |-> CurrentTimestamp]]
    /\ UNCHANGED <<now, mecaAids, mecaAidSteps, downloadedModules, syncLogs, userActivities,
                   pc, loc, resp>>

\* PUT /api/modules/:uuid: one UPDATE that sets version = version + 1.  The
\* body supplies every column, null for the ones to keep; an unknown uuid
\* changes no row.
UpdateModule(uuid, isActive, isDownloadable) ==
    /\ uuid \in ModuleIdsNow
    /\ modules[uuid].version < MaxVersion
    /\ modules' = [modules EXCEPT ![uuid] =
            [isActive |-> Coalesce(isActive, @.isActive),
             isDownloadable |-> Coalesce(isDownloadable, @.isDownloadable),
             version |-> @.version + 1,
             updatedAt |-> CurrentTimestamp]]
    /\ UNCHANGED <<now, mecaAids, mecaAidSteps, downloadedModules, syncLogs, userActivities,
                   pc, loc, resp>>

\* Variant: the deletion also removes the module's rows of the ledger.
DeleteModule_Cascade(uuid) ==
    /\ uuid \in ModuleIdsNow
    /\ modules[uuid].isActive
    /\ modules' = [modules EXCEPT ![uuid] =
            [@ EXCEPT !.isActive = FALSE, !.updatedAt = CurrentTimestamp]]
    /\ downloadedModules' = {r \in downloadedModules : r.moduleId # uuid}
    /\ UNCHANGED <<now, mecaAids, mecaAidSteps, syncLogs, userActivities, pc, loc, resp>>

\* DELETE /api/modules/:uuid: UPDATE modules SET is_active = false; a row
\* that is inactive already is not changed.
DeleteModule(uuid) ==
    /\ uuid \in ModuleIdsNow
    /\ modules[uuid].isActive
    /\ modules' = [modules EXCEPT ![uuid] =
            [@ EXCEPT !.isActive = FALSE, !.updatedAt = CurrentTimestamp]]
    /\ UNCHANGED <<now, mecaAids, mecaAidSteps, downloadedModules, syncLogs, userActivities,
                   pc, loc, resp>>

\* POST /api/meca-aid: INSERT INTO meca_aids (...).
CreateMecaAid ==
    /\ Len(mecaAids) < NumAids
    /\ mecaAids' = Append(mecaAids,
            [isActive |-> TRUE, version |-> DefaultVersion, updatedAt |-> CurrentTimestamp])
    /\ UNCHANGED <<now, modules, mecaAidSteps, downloadedModules, syncLogs, userActivities,
                   pc, loc, resp>>

\* POST /api/meca-aid with a steps array of numSteps steps: the INSERT of the
\* aid, then one INSERT per step, numbered from 1, each awaited.
CreateMecaAidStart(w, numSteps) ==
    /\ pc[w] = "idle"
    /\ mecaAids' = Append(mecaAids,
            [isActive |-> TRUE, version |-> DefaultVersion, updatedAt |-> CurrentTimestamp])
    /\ IF numSteps > 0
       THEN /\ loc' = [loc EXCEPT ![w] =
                    [op |-> "create_aid", insertId |-> Len(mecaAids) + 1,
                     steps |-> numSteps, i |-> 0]]
            /\ pc' = [pc EXCEPT ![w] = "create_steps"]
            /\ resp' = [resp EXCEPT ![w] = NoResp]
       ELSE /\ resp' = [resp EXCEPT ![w] =
                    [kind |-> "create_aid", status |-> 201, id |-> Len(mecaAids) + 1]]
            /\ UNCHANGED <<pc, loc>>
    /\ UNCHANGED <<now, modules, mecaAidSteps, downloadedModules, syncLogs, userActivities>>

\* One iteration of the steps loop; after the last one the response is sent.
CreateMecaAidStep(w) ==
    /\ pc[w] = "create_steps"
    /\ mecaAidSteps' = mecaAidSteps \cup
            {[mecaAidId |-> loc[w].insertId, stepNumber |-> loc[w].i + 1]}
    /\ IF loc[w].i + 1 < loc[w].steps
       THEN /\ loc' = [loc EXCEPT ![w].i = loc[w].i + 1]
            /\ UNCHANGED <<pc, resp>>
       ELSE /\ resp' = [resp EXCEPT ![w] =
                    [kind |-> "create_aid", status |-> 201, id |-> loc[w].insertId]]
            /\ pc' = [pc EXCEPT ![w] = "idle"]
            /\ loc' = [loc EXCEPT ![w] = NoLoc]
    /\ UNCHANGED <<now, modules, mecaAids, downloadedModules, syncLogs, userActivities>>

\* PUT /api/meca-aid/:uuid: one UPDATE of the content columns and is_active;
\* the statement does not touch version.  changed: some bound column value
\* differs from the stored one.
UpdateMecaAid(uuid, isActive, changed) ==
    /\ uuid \in AidIdsNow
    /\ LET old == mecaAids[uuid]
           act == Coalesce(isActive, old.isActive)
           touched == changed \/ act # old.isActive
       IN /\ touched
          /\ mecaAids' = [mecaAids EXCEPT ![uuid] =
                [isActive |-> act, version |-> old.version, updatedAt |-> CurrentTimestamp]]
    /\ UNCHANGED <<now, modules, mecaAidSteps, downloadedModules, syncLogs, userActivities,
                   pc, loc, resp>>

\* Variant: DELETE FROM meca_aids WHERE uuid = ?
DeleteMecaAid_HardDelete(uuid) ==
    /\ uuid \in AidIdsNow
    /\ mecaAids[uuid].isActive
    /\ mecaAids' = [i \in 1..(Len(mecaAids) - 1) |->
                        IF i < uuid THEN mecaAids[i] ELSE mecaAids[i + 1]]
    /\ UNCHANGED <<now, modules, mecaAidSteps, downloadedModules, syncLogs, userActivities,
                   pc, loc, resp>>

\* DELETE /api/meca-aid/:uuid: UPDATE meca_aids SET is_active = false.
DeleteMecaAid(uuid) ==
    /\ uuid \in AidIdsNow
    /\ mecaAids[uuid].isActive
    /\ mecaAids' = [mecaAids EXCEPT ![uuid] =
            [@ EXCEPT !.isActive = FALSE, !.updatedAt = CurrentTimestamp]]
    /\ UNCHANGED <<now, modules, mecaAidSteps, downloadedModules, syncLogs, userActivities,
                   pc, loc, resp>>

\* -------------------------------------------------- GET /api/sync/full
\* Handler entry up to the first await: read lastSync, run the modules query.
FullStart(w, u, header, lastSync) ==
    /\ pc[w] = "idle"
    /\ LET sinceDate == SinceDate(lastSync)
       IN loc' = [loc EXCEPT ![w] =
            [op |-> "full", userId |-> u, deviceId |-> ReqDeviceId(header),
             lastSync |-> lastSync, sinceDate |-> sinceDate,
             modules |-> FullModulesQuery(sinceDate), mecaAids |-> {},
             stepQueries |-> 0]]
    /\ pc' = [pc EXCEPT ![w] = "full_aids"]
    /\ resp' = [resp EXCEPT ![w] = NoResp]
    /\ UNCHANGED <<now, tables>>

\* The meca aids query; the steps are fetched only if it returned a row.
FullQueryAids(w) ==
    /\ pc[w] = "full_aids"
    /\ LET mecaAidsNow == FullMecaAidsQuery(loc[w].sinceDate)
       IN /\ loc' = [loc EXCEPT ![w].mecaAids = mecaAidsNow]
          /\ pc' = [pc EXCEPT ![w] = IF mecaAidsNow = {} THEN "full_log" ELSE "full_steps"]
    /\ UNCHANGED <<now, tables, resp>>

\* ORDER BY meca_aid_id, step_number
StepBefore(a, b) ==
    \/ a.mecaAidId < b.mecaAidId
    \/ a.mecaAidId = b.mecaAidId /\ a.stepNumber < b.stepNumber

RECURSIVE SortSteps(_)
SortSteps(S) ==
    IF S = {} THEN <<>>
    ELSE LET first == CHOOSE x \in S : \A y \in S \ {x} : StepBefore(x, y)
         IN <<first>> \o SortSteps(S \ {first})

\* SELECT * FROM meca_aid_steps WHERE meca_aid_id IN (ids) ORDER BY ...
StepsQuery(mecaAidIds) == SortSteps({s \in mecaAidSteps : s.mecaAidId \in mecaAidIds})

\* Variant: every fetched step attached to every aid.
StepsFilter_All(steps, id) == steps

\* steps.filter((s) => s.meca_aid_id === ma.id)
StepsFilter(steps, id) == SelectSeq(steps, LAMBDA s : s.mecaAidId = id)

\* The steps of the returned aids: one statement for all of them, then the
\* join in memory that gives every aid its steps property.
FullQuerySteps(w) ==
    /\ pc[w] = "full_steps"
    /\ LET mecaAidIds == {ma.id : ma \in loc[w].mecaAids}
           steps == StepsQuery(mecaAidIds)
       IN loc' = [loc EXCEPT
                ![w].mecaAids =
                    {[id |-> ma.id, version |-> ma.version, updatedAt |-> ma.updatedAt,
                      steps |-> StepsFilter(steps, ma.id)] : ma \in loc[w].mecaAids},
                ![w].stepQueries = loc[w].stepQueries + 1]
    /\ pc' = [pc EXCEPT ![w] = "full_log"]
    /\ UNCHANGED <<now, tables, resp>>

\* Variant: one checkpoint row per (user, device), replaced by each request.
FullLog_Overwrite(w) ==
    /\ pc[w] = "full_log"
    /\ LET row == [userId |-> loc[w].userId, deviceId |-> loc[w].deviceId,
                   syncType |-> "full",
                   itemsSynced |-> Cardinality(loc[w].modules)
                                        + Cardinality(loc[w].mecaAids),
                   lastSyncAt |-> CurrentTimestamp]
           others == SelectSeq(syncLogs, LAMBDA r :
                        ~(r.userId = row.userId /\ r.deviceId = row.deviceId))
       IN syncLogs' = Append(others, row)
    /\ pc' = [pc EXCEPT ![w] = "full_respond"]
    /\ UNCHANGED <<now, modules, mecaAids, mecaAidSteps, downloadedModules,
                   userActivities, loc, resp>>

\* INSERT INTO sync_logs (user_id, device_id, sync_type, items_synced).
FullLog(w) ==
    /\ pc[w] = "full_log"
    /\ syncLogs' = Append(syncLogs,
            [userId |-> loc[w].userId, deviceId |-> loc[w].deviceId,
             syncType |-> "full",
             itemsSynced |-> Cardinality(loc[w].modules) + Cardinality(loc[w].mecaAids),
             lastSyncAt |-> CurrentTimestamp])
    /\ pc' = [pc EXCEPT ![w] = "full_respond"]
    /\ UNCHANGED <<now, modules, mecaAids, mecaAidSteps, downloadedModules,
                   userActivities, loc, resp>>

\* res.json({ success: true, data: { modules, mecaAids, ..., syncedAt } })
FullRespond(w) ==
    /\ pc[w] = "full_respond"
    /\ resp' = [resp EXCEPT ![w] =
            [kind |-> "full", status |-> 200, lastSync |-> loc[w].lastSync,
             modules |-> loc[w].modules, mecaAids |-> loc[w].mecaAids,
             stepQueries |-> loc[w].stepQueries, syncedAt |-> now]]
    /\ pc' = [pc EXCEPT ![w] = "idle"]
    /\ loc' = [loc EXCEPT ![w] = NoLoc]
    /\ UNCHANGED <<now, tables>>

\* -------------------------------------------------- GET /api/sync/check
\* Variant: without lastSync the answer is computed from the catalog.
CheckInitial_Counted(w, u, header, lastSync) ==
    /\ pc[w] = "idle"
    /\ lastSync.tag # "iso"
    /\ resp' = [resp EXCEPT ![w] =
            [kind |-> "check", status |-> 200, lastSync |-> lastSync,
             hasUpdates |-> (CheckModulesCount(0) > 0 \/ CheckMecaAidsCount(0) > 0),
             counted |-> FALSE, modules |-> 0, mecaAids |-> 0]]
    /\ UNCHANGED <<now, tables, pc, loc>>

\* Without lastSync the handler answers before any query.
CheckInitial(w, u, header, lastSync) ==
    /\ pc[w] = "idle"
    /\ lastSync.tag # "iso"
    /\ resp' = [resp EXCEPT ![w] =
            [kind |-> "check", status |-> 200, lastSync |-> lastSync,
             hasUpdates |-> TRUE, counted |-> FALSE, modules |-> 0, mecaAids |-> 0]]
    /\ UNCHANGED <<now, tables, pc, loc>>

\* With lastSync: the modules count query.
CheckStart(w, u, header, lastSync) ==
    /\ pc[w] = "idle"
    /\ lastSync.tag = "iso"
    /\ LET sinceDate == NewDate(lastSync)
       IN loc' = [loc EXCEPT ![w] =
            [op |-> "check", lastSync |-> lastSync, sinceDate |-> sinceDate,
             modulesCount |-> CheckModulesCount(sinceDate)]]
    /\ pc' = [pc EXCEPT ![w] = "check_aids"]
    /\ resp' = [resp EXCEPT ![w] = NoResp]
    /\ UNCHANGED <<now, tables>>

\* The meca aids count query and the response.
CheckQueryAids(w) ==
    /\ pc[w] = "check_aids"
    /\ LET mecaAidsCount == CheckMecaAidsCount(loc[w].sinceDate)
       IN resp' = [resp EXCEPT ![w] =
            [kind |-> "check", status |-> 200, lastSync |-> loc[w].lastSync,
             hasUpdates |-> (loc[w].modulesCount > 0 \/ mecaAidsCount > 0),
             counted |-> TRUE,
             modules |-> loc[w].modulesCount, mecaAids |-> mecaAidsCount]]
    /\ pc' = [pc EXCEPT ![w] = "idle"]
    /\ loc' = [loc EXCEPT ![w] = NoLoc]
    /\ UNCHANGED <<now, tables>>

\* ------------------------------------------------------------ db.execute
\* A prepared statement of the mysql2 pool behind config/database: execute
\* throws, before anything is sent, when a bound parameter is undefined.
BindOk(params) == \A k \in DOMAIN params : params[k] # UNDEF

\* ------------------------------------- POST /api/modules/:uuid/download
\* Variant: the lookup without the is_active condition.
DownloadableModule_IgnoreActive(uuid) ==
    {i \in ModuleIdsNow : i = uuid /\ modules[i].isDownloadable}

\* SELECT * FROM modules WHERE uuid = ? AND is_active = true AND is_downloadable = true
DownloadableModule(uuid) ==
    {i \in ModuleIdsNow : i = uuid /\ modules[i].isActive /\ modules[i].isDownloadable}

SameKey(r, q) ==
    r.userId = q.userId /\ r.moduleId = q.moduleId /\ r.deviceId = q.deviceId

\* Variant: a plain INSERT that the table accepts, with no conflict handling.
UpsertDownload_PlainInsert(rows, row) == rows \cup {row}

\* Variant: on conflict the stored version is replaced only by a newer one.
UpsertDownload_KeepNewer(rows, row) ==
    IF \E r \in rows : SameKey(r, row) /\ r.downloadedVersion >= row.downloadedVersion
    THEN rows
    ELSE {r \in rows : ~SameKey(r, row)} \cup {row}

\* INSERT INTO downloaded_modules ... ON DUPLICATE KEY UPDATE
\*   downloaded_version = VALUES(downloaded_version), downloaded_at = NOW()
UpsertDownload(rows, row) == {r \in rows : ~SameKey(r, row)} \cup {row}

\* The module lookup; no row: 404.  An answer sent here is kept with the
\* uuid of the request it answers.
DownloadStart(w, u, header, uuid, ok) ==
    /\ pc[w] = "idle"
    /\ IF ~ok
       THEN /\ resp' = [resp EXCEPT ![w] =
                    [kind |-> "download", status |-> 500, req |-> uuid]]
            /\ UNCHANGED <<pc, loc>>
       ELSE IF DownloadableModule(uuid) = {}
       THEN /\ resp' = [resp EXCEPT ![w] =
                    [kind |-> "download", status |-> 404, req |-> uuid]]
            /\ UNCHANGED <<pc, loc>>
       ELSE /\ loc' = [loc EXCEPT ![w] =
                    [op |-> "download", userId |-> u, deviceId |-> ReqDeviceId(header),
                     module |-> ModuleRow(uuid)]]
            /\ pc' = [pc EXCEPT ![w] = "download_upsert"]
            /\ resp' = [resp EXCEPT ![w] = NoResp]
    /\ UNCHANGED <<now, tables>>

\* Variant: the upsert bound to req.deviceId as it is, without the sentinel.
DownloadUpsert_NullDevice(w, ok) ==
    /\ pc[w] = "download_upsert"
    /\ IF ok
       THEN /\ downloadedModules' = UpsertDownload(downloadedModules,
                    [userId |-> loc[w].userId, moduleId |-> loc[w].module.id,
                     deviceId |-> loc[w].deviceId,
                     downloadedVersion |-> loc[w].module.version,
                     downloadedAt |-> now])
            /\ pc' = [pc EXCEPT ![w] = "download_activity"]
            /\ UNCHANGED <<loc, resp>>
       ELSE /\ resp' = [resp EXCEPT ![w] = [kind |-> "download", status |-> 500]]
            /\ pc' = [pc EXCEPT ![w] = "idle"]
            /\ loc' = [loc EXCEPT ![w] = NoLoc]
            /\ UNCHANGED downloadedModules
    /\ UNCHANGED <<now, modules, mecaAids, mecaAidSteps, syncLogs, userActivities>>

\* Record download: the upsert keyed by (user, module, device || "unknown").
DownloadUpsert(w, ok) ==
    /\ pc[w] = "download_upsert"
    /\ IF ok
       THEN /\ downloadedModules' = UpsertDownload(downloadedModules,
                    [userId |-> loc[w].userId, moduleId |-> loc[w].module.id,
                     deviceId |-> Or(loc[w].deviceId, UNKNOWN),
                     downloadedVersion |-> loc[w].module.version,
                     downloadedAt |-> now])
            /\ pc' = [pc EXCEPT ![w] = "download_activity"]
            /\ UNCHANGED <<loc, resp>>
       ELSE /\ resp' = [resp EXCEPT ![w] = [kind |-> "download", status |-> 500]]
            /\ pc' = [pc EXCEPT ![w] = "idle"]
            /\ loc' = [loc EXCEPT ![w] = NoLoc]
            /\ UNCHANGED downloadedModules
    /\ UNCHANGED <<now, modules, mecaAids, mecaAidSteps, syncLogs, userActivities>>

\* Variant: the two writes in one transaction, rolled back when the
\* activity insert fails.
DownloadActivity_Rollback(w, ok) ==
    /\ pc[w] = "download_activity"
    /\ IF ok
       THEN /\ userActivities' = Append(userActivities,
                    [userId |-> loc[w].userId, deviceId |-> loc[w].deviceId,
                     activityType |-> "module_download",
                     referenceId |-> loc[w].module.id])
            /\ pc' = [pc EXCEPT ![w] = "download_attachments"]
            /\ UNCHANGED <<loc, resp, downloadedModules>>
       ELSE /\ resp' = [resp EXCEPT ![w] = [kind |-> "download", status |-> 500]]
            /\ pc' = [pc EXCEPT ![w] = "idle"]
            /\ loc' = [loc EXCEPT ![w] = NoLoc]
            /\ downloadedModules' =
                    {r \in downloadedModules :
                        ~(r.userId = loc[w].userId /\ r.moduleId = loc[w].module.id)}
            /\ UNCHANGED userActivities
    /\ UNCHANGED <<now, modules, mecaAids, mecaAidSteps, syncLogs>>

\* Log activity: INSERT INTO user_activities (..., 'module_download', ?, 'module').
DownloadActivity(w, ok) ==
    /\ pc[w] = "download_activity"
    /\ IF ok
       THEN /\ userActivities' = Append(userActivities,
                    [userId |-> loc[w].userId, deviceId |-> loc[w].deviceId,
                     activityType |-> "module_download",
                     referenceId |-> loc[w].module.id])
            /\ pc' = [pc EXCEPT ![w] = "download_attachments"]
            /\ UNCHANGED <<loc, resp>>
       ELSE /\ resp' = [resp EXCEPT ![w] = [kind |-> "download", status |-> 500]]
            /\ pc' = [pc EXCEPT ![w] = "idle"]
            /\ loc' = [loc EXCEPT ![w] = NoLoc]
            /\ UNCHANGED userActivities
    /\ UNCHANGED <<now, modules, mecaAids, mecaAidSteps, downloadedModules, syncLogs>>

\* The attachments query and the response.
DownloadRespond(w, ok) ==
    /\ pc[w] = "download_attachments"
    /\ resp' = [resp EXCEPT ![w] =
            IF ok THEN [kind |-> "download", status |-> 200, module |-> loc[w].module]
            ELSE [kind |-> "download", status |-> 500]]
    /\ pc' = [pc EXCEPT ![w] = "idle"]
    /\ loc' = [loc EXCEPT ![w] = NoLoc]
    /\ UNCHANGED <<now, tables>>

\* ------------------------------------------------ GET /api/sync/downloads
\* Variant: needs_update computed with <= instead of <.
NeedsUpdate_OrEqual(downloadedVersion, currentVersion) ==
    downloadedVersion <= currentVersion

\* CASE WHEN dm.downloaded_version < m.version THEN true ELSE false END
NeedsUpdate(downloadedVersion, currentVersion) == downloadedVersion < currentVersion

\* Variant: the rows of the user on every device.
DownloadsQuery_AnyDevice(userId, deviceId) ==
    {[userId |-> dm.userId, deviceId |-> dm.deviceId, moduleId |-> dm.moduleId,
      downloadedVersion |-> dm.downloadedVersion,
      currentVersion |-> modules[dm.moduleId].version,
      needsUpdate |-> NeedsUpdate(dm.downloadedVersion, modules[dm.moduleId].version)] :
        dm \in {r \in downloadedModules :
                    r.moduleId \in ModuleIdsNow /\ r.userId = userId}}

\* SELECT dm.*, m.version as current_version, CASE ... END as needs_update
\* FROM downloaded_modules dm JOIN modules m ON dm.module_id = m.id
\* WHERE dm.user_id = ? AND dm.device_id = ?
DownloadsQuery(userId, deviceId) ==
    {[userId |-> dm.userId, deviceId |-> dm.deviceId, moduleId |-> dm.moduleId,
      downloadedVersion |-> dm.downloadedVersion,
      currentVersion |-> modules[dm.moduleId].version,
      needsUpdate |-> NeedsUpdate(dm.downloadedVersion, modules[dm.moduleId].version)] :
        dm \in {r \in downloadedModules :
                    r.moduleId \in ModuleIdsNow /\ r.userId = userId /\ r.deviceId = deviceId}}

\* The whole handler: one query, bound to [req.user.id, req.deviceId || "unknown"].
GetDownloads(w, u, header) ==
    /\ pc[w] = "idle"
    /\ resp' = [resp EXCEPT ![w] =
            [kind |-> "downloads", status |-> 200,
             req |-> [userId |-> u, header |-> header],
             data |-> DownloadsQuery(u, Or(ReqDeviceId(header), UNKNOWN))]]
    /\ UNCHANGED <<now, tables, pc, loc>>

\* -------------------------------------------------- GET /api/sync/status
\* SELECT * FROM sync_logs WHERE user_id = ? AND device_id = ?
\* ORDER BY last_sync_at DESC LIMIT 1: the candidates for the one row
\* returned, namely the matching rows with the greatest last_sync_at.  A row
\* whose device_id is NULL matches no bound value.
StatusQuery(userId, deviceId) ==
    LET matching == {k \in DOMAIN syncLogs :
                        /\ syncLogs[k].userId = userId
                        /\ syncLogs[k].deviceId # NULL
                        /\ syncLogs[k].deviceId = deviceId}
    IN {k \in matching :
            \A j \in matching : syncLogs[j].lastSyncAt <= syncLogs[k].lastSyncAt}

\* The whole handler: one query, bound to [req.user.id, req.deviceId ||
\* "unknown"]; logs is the result array, empty when no row matches, and the
\* answer carries logs[0] or null.
GetStatus(w, u, header) ==
    /\ pc[w] = "idle"
    /\ LET candidates == StatusQuery(u, Or(ReqDeviceId(header), UNKNOWN))
       IN \E logs \in (IF candidates = {} THEN {<<>>}
                        ELSE {<<syncLogs[k]>> : k \in candidates}) :
            resp' = [resp EXCEPT ![w] =
                [kind |-> "status", status |-> 200,
                 req |-> [userId |-> u, header |-> header],
                 logs |-> logs]]
    /\ UNCHANGED <<now, tables, pc, loc>>

\* ------------------------------------------------ POST /api/sync/activities
\* A request body's activities property: absent, null, a value that is not an
\* array (an array-like object with the same items), or an array.
IsArray(a) == a.kind = "array"
Falsy(a) == a.kind \in {"absent", "null"}

\* Variant: the test without Array.isArray.
IngestBodyRejected_NoArrayTest(activities) == Falsy(activities)

\* if (!activities || !Array.isArray(activities)) return 400
IngestBodyRejected(activities) == Falsy(activities) \/ ~IsArray(activities)

\* The bound parameters of the insert of one activity.
IngestParams(deviceId, activity) ==
    [deviceId |-> Or(deviceId, activity.deviceId),
     activityType |-> activity.activityType]

\* Handler entry: validation; an empty array runs no iteration and is answered.
IngestStart(w, u, header, activities) ==
    /\ pc[w] = "idle"
    /\ IF IngestBodyRejected(activities)
       THEN /\ resp' = [resp EXCEPT ![w] =
                    [kind |-> "ingest", status |-> 400, activities |-> activities]]
            /\ UNCHANGED <<pc, loc>>
       ELSE IF Len(activities.items) = 0
       THEN /\ resp' = [resp EXCEPT ![w] =
                    [kind |-> "ingest", status |-> 200, activities |-> activities,
                     header |-> header, synced |-> 0, total |-> 0, errors |-> {}]]
            /\ UNCHANGED <<pc, loc>>
       ELSE /\ loc' = [loc EXCEPT ![w] =
                    [op |-> "ingest", userId |-> u, deviceId |-> ReqDeviceId(header),
                     header |-> header, activities |-> activities, i |-> 1, synced |-> 0,
                     errors |-> {}]]
            /\ pc' = [pc EXCEPT ![w] = "ingest_insert"]
            /\ resp' = [resp EXCEPT ![w] = NoResp]
    /\ UNCHANGED <<now, tables>>

\* Variant: the loop without its try/catch, so that the first failing insert
\* reaches the handler's catch and the request is answered with an error.
IngestInsert_AbortOnFailure(w, ok) ==
    /\ pc[w] = "ingest_insert"
    /\ LET l == loc[w]
           activity == l.activities.items[l.i]
           params == IngestParams(l.deviceId, activity)
           inserted == BindOk(params) /\ ok
       IN /\ userActivities' =
                IF inserted
                THEN Append(userActivities,
                        [userId |-> l.userId, deviceId |-> params.deviceId,
                         activityType |-> params.activityType, referenceId |-> NULL])
                ELSE userActivities
          /\ IF inserted /\ l.i < Len(l.activities.items)
             THEN /\ loc' = [loc EXCEPT ![w].i = l.i + 1, ![w].synced = l.synced + 1]
                  /\ UNCHANGED <<pc, resp>>
             ELSE /\ resp' = [resp EXCEPT ![w] =
                        IF inserted
                        THEN [kind |-> "ingest", status |-> 200, activities |-> l.activities,
                              header |-> l.header, synced |-> l.synced + 1,
                              total |-> Len(l.activities.items), errors |-> l.errors]
                        ELSE [kind |-> "ingest", status |-> 500, activities |-> l.activities,
                              header |-> l.header, synced |-> l.synced,
                              total |-> Len(l.activities.items), errors |-> l.errors]]
                  /\ pc' = [pc EXCEPT ![w] = "idle"]
                  /\ loc' = [loc EXCEPT ![w] = NoLoc]
    /\ UNCHANGED <<now, modules, mecaAids, mecaAidSteps, downloadedModules, syncLogs>>

\* One iteration of the loop: the insert of activities[i] inside try/catch;
\* ok: the storage layer executes the statement.  A failure is caught and
\* written to the error log (errors: the positions logged), nothing else.
\* After the last iteration the response is sent.
IngestInsert(w, ok) ==
    /\ pc[w] = "ingest_insert"
    /\ LET l == loc[w]
           activity == l.activities.items[l.i]
           params == IngestParams(l.deviceId, activity)
           inserted == BindOk(params) /\ ok
           synced == IF inserted THEN l.synced + 1 ELSE l.synced
           errors == IF inserted THEN l.errors ELSE l.errors \cup {l.i}
       IN /\ userActivities' =
                IF inserted
                THEN Append(userActivities,
                        [userId |-> l.userId, deviceId |-> params.deviceId,
                         activityType |-> params.activityType, referenceId |-> NULL])
                ELSE userActivities
          /\ IF l.i < Len(l.activities.items)
             THEN /\ loc' = [loc EXCEPT ![w].i = l.i + 1, ![w].synced = synced,
                                        ![w].errors = errors]
                  /\ UNCHANGED <<pc, resp>>
             ELSE /\ resp' = [resp EXCEPT ![w] =
                        [kind |-> "ingest", status |-> 200, activities |-> l.activities,
                         header |-> l.header,
                         synced |-> synced, total |-> Len(l.activities.items),
                         errors |-> errors]]
                  /\ pc' = [pc EXCEPT ![w] = "idle"]
                  /\ loc' = [loc EXCEPT ![w] = NoLoc]
    /\ UNCHANGED <<now, modules, mecaAids, mecaAidSteps, downloadedModules, syncLogs>>

\* ------------------------------------------------ POST /api/activities/log
\* if (!activities || !Array.isArray(activities) || activities.length === 0) return 400
LogBodyRejected(activities) ==
    Falsy(activities) \/ ~IsArray(activities) \/ Len(activities.items) = 0

\* insertValues: one parameter tuple per activity.
LogParams(deviceId, a) ==
    [deviceId |-> Or(Or(deviceId, a.deviceId), NULL), activityType |-> a.activityType]

\* Variant: one INSERT per activity, the ones that cannot be bound skipped.
LogBatch_SkipUnbound(w, u, header, activities, ok) ==
    /\ pc[w] = "idle"
    /\ IF LogBodyRejected(activities)
       THEN /\ resp' = [resp EXCEPT ![w] =
                    [kind |-> "log", status |-> 400, activities |-> activities]]
            /\ UNCHANGED userActivities
       ELSE LET values == [k \in 1..Len(activities.items) |->
                                LogParams(ReqDeviceId(header), activities.items[k])]
                bound == SelectSeq(values, LAMBDA v : BindOk(v))
            IN IF ok
               THEN /\ userActivities' = userActivities \o
                            [k \in 1..Len(bound) |->
                                [userId |-> u, deviceId |-> bound[k].deviceId,
                                 activityType |-> bound[k].activityType,
                                 referenceId |-> NULL]]
                    /\ resp' = [resp EXCEPT ![w] =
                            [kind |-> "log", status |-> 200, activities |-> activities,
                             logged |-> Len(activities.items)]]
               ELSE /\ resp' = [resp EXCEPT ![w] =
                            [kind |-> "log", status |-> 500, activities |-> activities]]
                    /\ UNCHANGED userActivities
    /\ UNCHANGED <<now, modules, mecaAids, mecaAidSteps, downloadedModules, syncLogs, pc, loc>>

\* The whole handler: validation, then one multi-row INSERT.
LogBatch(w, u, header, activities, ok) ==
    /\ pc[w] = "idle"
    /\ IF LogBodyRejected(activities)
       THEN /\ resp' = [resp EXCEPT ![w] =
                    [kind |-> "log", status |-> 400, activities |-> activities]]
            /\ UNCHANGED userActivities
       ELSE LET values == [k \in 1..Len(activities.items) |->
                                LogParams(ReqDeviceId(header), activities.items[k])]
                inserted == ok /\ \A k \in DOMAIN values : BindOk(values[k])
            IN IF inserted
               THEN /\ userActivities' = userActivities \o
                            [k \in 1..Len(values) |->
                                [userId |-> u, deviceId |-> values[k].deviceId,
                                 activityType |-> values[k].activityType,
                                 referenceId |-> NULL]]
                    /\ resp' = [resp EXCEPT ![w] =
                            [kind |-> "log", status |-> 200, activities |-> activities,
                             logged |-> Len(activities.items)]]
               ELSE /\ resp' = [resp EXCEPT ![w] =
                            [kind |-> "log", status |-> 500, activities |-> activities]]
                    /\ UNCHANGED userActivities
    /\ UNCHANGED <<now, modules, mecaAids, mecaAidSteps, downloadedModules, syncLogs, pc, loc>>

\* --------------------------------------------- POST /api/activities/single
\* Variant: the handler without its validation.
SingleBodyRejected_Never(body) == FALSE

\* if (!activityType) return 400
SingleBodyRejected(body) == ~Truthy(body.activityType)

\* The bound parameters of the insert that depend on the request.
SingleParams(deviceId, body) ==
    [deviceId |-> deviceId, activityType |-> body.activityType]

\* The whole handler: validation, then one INSERT; an exception of the
\* statement goes to next(error) and the error handler answers 500.
LogSingle(w, u, header, body, ok) ==
    /\ pc[w] = "idle"
    /\ IF SingleBodyRejected(body)
       THEN /\ resp' = [resp EXCEPT ![w] =
                    [kind |-> "single", status |-> 400, body |-> body, header |-> header]]
            /\ UNCHANGED userActivities
       ELSE LET params == SingleParams(ReqDeviceId(header), body)
                inserted == BindOk(params) /\ ok
            IN IF inserted
               THEN /\ userActivities' = Append(userActivities,
                            [userId |-> u, deviceId |-> params.deviceId,
                             activityType |-> params.activityType, referenceId |-> NULL])
                    /\ resp' = [resp EXCEPT ![w] =
                            [kind |-> "single", status |-> 200, body |-> body,
                             header |-> header]]
               ELSE /\ resp' = [resp EXCEPT ![w] =
                            [kind |-> "single", status |-> 500, body |-> body,
                             header |-> header]]
                    /\ UNCHANGED userActivities
    /\ UNCHANGED <<now, modules, mecaAids, mecaAidSteps, downloadedModules, syncLogs, pc, loc>>

\* ----------------------------------------------------- specification Sync
\* Content authoring, the clock and one device's sync requests, whose queries
\* interleave with the authoring statements.
SyncWorkers == {"w1"}
SyncUsers == {"u1"}
BoolParams == {NULL, "true", "false"}

\* Requests in flight or answered that write a sync_logs row.
FullsStarted ==
    Len(syncLogs)
        + Cardinality({x \in Workers : pc[x] \in {"full_aids", "full_steps", "full_log"}})

Authoring ==
    \/ CreateModule(UNDEF)
    \/ \E id \in 1..NumModules, a \in BoolParams : UpdateModule(id, a, NULL)
    \/ \E id \in 1..NumModules : DeleteModule(id)
    \/ CreateMecaAid
    \/ \E id \in 1..NumAids, a \in BoolParams, c \in BOOLEAN : UpdateMecaAid(id, a, c)
    \/ \E id \in 1..NumAids : DeleteMecaAid(id)

NextSync ==
    \/ Tick
    \/ Authoring
    \/ \E w \in SyncWorkers, u \in SyncUsers, h \in DeviceIds, ls \in LastSyncInputs :
            FullsStarted < MaxLogs /\ FullStart(w, u, h, ls)
    \/ \E w \in SyncWorkers : FullQueryAids(w)
    \/ \E w \in SyncWorkers : FullQuerySteps(w)
    \/ \E w \in SyncWorkers : FullLog(w)
    \/ \E w \in SyncWorkers : FullRespond(w)
    \/ \E w \in SyncWorkers, u \in SyncUsers, h \in DeviceIds, ls \in LastSyncInputs :
            CheckInitial(w, u, h, ls)
    \/ \E w \in SyncWorkers, u \in SyncUsers, h \in DeviceIds, ls \in LastSyncInputs :
            CheckStart(w, u, h, ls)
    \/ \E w \in SyncWorkers : CheckQueryAids(w)

SpecSync == Init /\ [][NextSync]_vars

\* ----------------------------------------------------- specification Read
\* A sync/full request and, once it is answered, a second one, over a catalog
\* nobody edits: the catalog is any content the authoring routes can have
\* written by time MaxTime.
CatalogModuleRows ==
    [isActive : BOOLEAN, isDownloadable : {TRUE}, version : {DefaultVersion},
     updatedAt : 1..MaxTime]
CatalogAidRows ==
    [isActive : BOOLEAN, version : {DefaultVersion}, updatedAt : 1..MaxTime]

InitRead ==
    /\ now = MaxTime
    /\ modules \in UNION {[1..n -> CatalogModuleRows] : n \in 0..NumModules}
    /\ mecaAids \in UNION {[1..n -> CatalogAidRows] : n \in 0..NumAids}
    /\ mecaAidSteps = {}
    /\ downloadedModules = {}
    /\ syncLogs = <<>>
    /\ userActivities = <<>>
    /\ pc = [w \in Workers |-> "idle"]
    /\ loc = [w \in Workers |-> NoLoc]
    /\ resp = [w \in Workers |-> NoResp]

NextRead ==
    \/ \E u \in SyncUsers, h \in DeviceIds, ls \in LastSyncInputs :
            resp["w1"] = NoResp /\ FullStart("w1", u, h, ls)
    \/ \E u \in SyncUsers, h \in DeviceIds, ls \in LastSyncInputs :
            resp["w1"].kind = "full" /\ resp["w2"] = NoResp /\ FullStart("w2", u, h, ls)
    \/ \E w \in Workers : FullQueryAids(w)
    \/ \E w \in Workers : FullQuerySteps(w)
    \/ \E w \in Workers : FullLog(w)
    \/ \E w \in Workers : FullRespond(w)

SpecRead == InitRead /\ [][NextRead]_vars

\* ---------------------------------------------------- specification Query
\* The sync/full and sync/check requests of one device over every catalog
\* the authoring routes can have written: each query of a request runs on the
\* catalog as it is at that instant, whatever was edited before.
NextQuery ==
    \/ \E w \in SyncWorkers, u \in SyncUsers, h \in DeviceIds, ls \in LastSyncInputs :
            FullsStarted < MaxLogs /\ FullStart(w, u, h, ls)
    \/ \E w \in SyncWorkers : FullQueryAids(w)
    \/ \E w \in SyncWorkers : FullQuerySteps(w)
    \/ \E w \in SyncWorkers : FullLog(w)
    \/ \E w \in SyncWorkers : FullRespond(w)
    \/ \E w \in SyncWorkers, u \in SyncUsers, h \in DeviceIds, ls \in LastSyncInputs :
            CheckInitial(w, u, h, ls)
    \/ \E w \in SyncWorkers, u \in SyncUsers, h \in DeviceIds, ls \in LastSyncInputs :
            CheckStart(w, u, h, ls)
    \/ \E w \in SyncWorkers : CheckQueryAids(w)

SpecQuery == InitRead /\ [][NextQuery]_vars

\* ------------------------------------------------- specification Download
\* Module authoring, downloads and download-status reads of three callers:
\* one user on a device, the same user without a device id, another user.
DownloadWorkers == {"w1"}
DownloadCallers == {<<"u1", "d1">>, <<"u1", UNDEF>>, <<"u2", "d1">>}

\* Download requests that have written or will write their activity row.
DownloadsStarted ==
    Len(userActivities)
        + Cardinality({x \in Workers : pc[x] \in {"download_upsert", "download_activity"}})

NextDownload ==
    \/ CreateModule(UNDEF)
    \/ \E id \in 1..NumModules, a \in BoolParams : UpdateModule(id, a, NULL)
    \/ \E id \in 1..NumModules : DeleteModule(id)
    \/ \E w \in DownloadWorkers, c \in DownloadCallers, uuid \in 1..NumModules :
            DownloadsStarted < MaxDownloads /\ DownloadStart(w, c[1], c[2], uuid, TRUE)
    \/ \E w \in DownloadWorkers : DownloadUpsert(w, TRUE)
    \/ \E w \in DownloadWorkers : DownloadActivity(w, TRUE)
    \/ \E w \in DownloadWorkers : DownloadRespond(w, TRUE)
    \/ \E w \in DownloadWorkers, c \in DownloadCallers : GetDownloads(w, c[1], c[2])

SpecDownload == Init /\ [][NextDownload]_vars

\* --------------------------------------------------- specification Ingest
\* Activity ingestion by one user, with and without a device id, over a
\* storage layer that executes every statement it is sent.
IngestWorkers == {"w1"}
IngestUsers == {"u1"}
ActivityInputs == [activityType : {UNDEF, "module_view"}, deviceId : {UNDEF, "d2"}]
ActivityLists == UNION {[1..n -> ActivityInputs] : n \in 0..MaxBatch}
Bodies ==
    {[kind |-> k, items |-> <<>>] : k \in {"absent", "null"}}
        \cup {[kind |-> k, items |-> s] : k \in {"object", "array"}, s \in ActivityLists}

NextIngest ==
    \/ \E w \in IngestWorkers, u \in IngestUsers, h \in DeviceHeaders, b \in Bodies :
            /\ Len(userActivities) + Len(b.items) <= MaxActivities
            /\ IngestStart(w, u, h, b)
    \/ \E w \in IngestWorkers : IngestInsert(w, TRUE)
    \/ \E w \in IngestWorkers, u \in IngestUsers, h \in DeviceHeaders, b \in Bodies :
            /\ Len(userActivities) + Len(b.items) <= MaxActivities
            /\ LogBatch(w, u, h, b, TRUE)

SpecIngest == Init /\ [][NextIngest]_vars

\* -------------------------------------------------- specification Partial
\* Activity ingestion, batch and single, over a storage layer that can fail
\* any statement it is sent.
SingleBodies == [activityType : {UNDEF, "", "module_view"}]

NextPartial ==
    \/ \E w \in IngestWorkers, u \in IngestUsers, h \in DeviceHeaders, b \in Bodies :
            /\ Len(userActivities) + Len(b.items) <= MaxActivities
            /\ IngestStart(w, u, h, b)
    \/ \E w \in IngestWorkers, ok \in BOOLEAN : IngestInsert(w, ok)
    \/ \E w \in IngestWorkers, u \in IngestUsers, h \in DeviceHeaders,
          body \in SingleBodies, ok \in BOOLEAN :
            /\ Len(userActivities) < MaxActivities
            /\ LogSingle(w, u, h, body, ok)

SpecPartial == Init /\ [][NextPartial]_vars

\* ---------------------------------------------------- specification Retry
\* A client that lost the response of its batch submits the batch again:
\* one sync/activities request and, once it is answered, a second one with
\* the same caller and the same body.
NextRetry ==
    \/ \E u \in IngestUsers, h \in DeviceHeaders, b \in Bodies :
            /\ resp["w1"] = NoResp /\ pc["w1"] = "idle"
            /\ Len(b.items) < MaxBatch
            /\ IngestStart("w1", u, h, b)
    \/ \E u \in IngestUsers :
            /\ resp["w1"].kind = "ingest" /\ resp["w1"].status = 200
            /\ resp["w2"] = NoResp /\ pc["w2"] = "idle"
            /\ IngestStart("w2", u, resp["w1"].header, resp["w1"].activities)
    \/ \E w \in Workers : IngestInsert(w, TRUE)

SpecRetry == Init /\ [][NextRetry]_vars

\* -------------------------------------------------- specification Content
\* The life of the content rows: authoring and the clock, interleaved with
\* the statements of one device's sync, download and activity requests.
ContentWorkers == {"w1"}
ContentCaller == <<"u1", "d1">>
ContentLastSyncs == {ls \in LastSyncInputs : ls.tag # "empty"}

NextContent ==
    \/ Tick
    \/ Authoring
    \/ \E w \in ContentWorkers, ls \in ContentLastSyncs :
            FullsStarted < MaxLogs /\ FullStart(w, ContentCaller[1], ContentCaller[2], ls)
    \/ \E w \in ContentWorkers : FullQueryAids(w)
    \/ \E w \in ContentWorkers : FullQuerySteps(w)
    \/ \E w \in ContentWorkers : FullLog(w)
    \/ \E w \in ContentWorkers : FullRespond(w)
    \/ \E w \in ContentWorkers, ls \in ContentLastSyncs :
            CheckStart(w, ContentCaller[1], ContentCaller[2], ls)
    \/ \E w \in ContentWorkers : CheckQueryAids(w)
    \/ \E w \in ContentWorkers, uuid \in 1..NumModules :
            /\ DownloadsStarted < MaxLogs
            /\ DownloadStart(w, ContentCaller[1], ContentCaller[2], uuid, TRUE)
    \/ \E w \in ContentWorkers : DownloadUpsert(w, TRUE)
    \/ \E w \in ContentWorkers : DownloadActivity(w, TRUE)
    \/ \E w \in ContentWorkers : DownloadRespond(w, TRUE)

SpecContent == Init /\ [][NextContent]_vars

\* --------------------------------------------------- specification Retire
\* Soft deletion of the items of any catalog, and reactivation of its
\* diagnostic aids, while one device's sync/full or sync/check request runs
\* its queries: the edits fall before, between and after the queries, up to
\* the answer.
Unanswered == \A w \in SyncWorkers : resp[w] = NoResp

NextRetire ==
    \/ \E id \in 1..NumModules : Unanswered /\ DeleteModule(id)
    \/ \E id \in 1..NumAids : Unanswered /\ DeleteMecaAid(id)
    \/ \E id \in 1..NumAids : Unanswered /\ UpdateMecaAid(id, "true", FALSE)
    \/ \E w \in SyncWorkers, u \in SyncUsers, h \in DeviceIds, ls \in ContentLastSyncs :
            Unanswered /\ FullStart(w, u, h, ls)
    \/ \E w \in SyncWorkers : FullQueryAids(w)
    \/ \E w \in SyncWorkers : FullQuerySteps(w)
    \/ \E w \in SyncWorkers : FullLog(w)
    \/ \E w \in SyncWorkers : FullRespond(w)
    \/ \E w \in SyncWorkers, u \in SyncUsers, h \in DeviceIds, ls \in ContentLastSyncs :
            Unanswered /\ CheckStart(w, u, h, ls)
    \/ \E w \in SyncWorkers : CheckQueryAids(w)

SpecRetire == InitRead /\ [][NextRetire]_vars

\* ----------------------------------------------------- specification Race
\* Download requests of one (user, device) running concurrently on two
\* workers, interleaved statement by statement with each other, with module
\* updates and with the clock.
RaceCaller == <<"u1", "d1">>

NextRace ==
    \/ Tick
    \/ CreateModule(UNDEF)
    \/ \E id \in 1..NumModules : UpdateModule(id, NULL, NULL)
    \/ \E w \in Workers, uuid \in 1..NumModules :
            /\ DownloadsStarted < MaxDownloads
            /\ DownloadStart(w, RaceCaller[1], RaceCaller[2], uuid, TRUE)
    \/ \E w \in Workers : DownloadUpsert(w, TRUE)
    \/ \E w \in Workers : DownloadActivity(w, TRUE)
    \/ \E w \in Workers : DownloadRespond(w, TRUE)

SpecRace == Init /\ [][NextRace]_vars

\* --------------------------------------------------- specification Status
\* First syncs and status reads of three callers over any catalog: one user
\* on a device, the same user without a device id, another user.
StatusCallers == {<<"u1", "d1">>, <<"u1", UNDEF>>, <<"u2", "d1">>}
FirstSync == [tag |-> "absent", t |-> 0]

NextStatus ==
    \/ \E w \in SyncWorkers, c \in StatusCallers :
            FullsStarted < MaxLogs /\ FullStart(w, c[1], c[2], FirstSync)
    \/ \E w \in SyncWorkers : FullQueryAids(w)
    \/ \E w \in SyncWorkers : FullQuerySteps(w)
    \/ \E w \in SyncWorkers : FullLog(w)
    \/ \E w \in SyncWorkers : FullRespond(w)
    \/ \E w \in SyncWorkers, c \in StatusCallers : GetStatus(w, c[1], c[2])

SpecStatus == InitRead /\ [][NextStatus]_vars

\* ---------------------------------------------------- specification Steps
\* An admin creating diagnostic aids with their steps and deleting aids,
\* while a device runs its first sync/full.
StepsAdmin == "w2"
StepsDevice == "w1"

NextSteps ==
    \/ \E numSteps \in 0..MaxSteps :
            Len(mecaAids) < NumStepAids /\ CreateMecaAidStart(StepsAdmin, numSteps)
    \/ CreateMecaAidStep(StepsAdmin)
    \/ \E id \in 1..NumStepAids : DeleteMecaAid(id)
    \/ \E u \in SyncUsers, h \in DeviceIds :
            resp[StepsDevice] = NoResp /\ FullStart(StepsDevice, u, h, FirstSync)
    \/ FullQueryAids(StepsDevice)
    \/ FullQuerySteps(StepsDevice)
    \/ FullLog(StepsDevice)
    \/ FullRespond(StepsDevice)

SpecSteps == Init /\ [][NextSteps]_vars

\* ------------------------------------------------- specification Converge
\* A device that syncs, keeps the syncedAt of the answer and passes it as
\* lastSync of its next sync/full, while the content is created and updated
\* and the clock runs: worker w1 runs the first sync, w2 the next one.
NextConverge ==
    \/ Tick
    \/ CreateModule(UNDEF)
    \/ \E id \in 1..NumModules : UpdateModule(id, NULL, NULL)
    \/ CreateMecaAid
    \/ \E id \in 1..NumAids : UpdateMecaAid(id, NULL, TRUE)
    \/ \E u \in SyncUsers, h \in DeviceIds :
            resp["w1"] = NoResp /\ FullStart("w1", u, h, FirstSync)
    \/ \E u \in SyncUsers, h \in DeviceIds :
            /\ resp["w1"].kind = "full" /\ resp["w2"] = NoResp
            /\ FullStart("w2", u, h, [tag |-> "iso", t |-> resp["w1"].syncedAt])
    \/ \E w \in Workers : FullQueryAids(w)
    \/ \E w \in Workers : FullQuerySteps(w)
    \/ \E w \in Workers : FullLog(w)
    \/ \E w \in Workers : FullRespond(w)

SpecConverge == Init /\ [][NextConverge]_vars

\* ------------------------------------------------ specification Checkpoint
\* Two sync/full requests of the same user and device, one per worker, whose
\* steps interleave freely, over every catalog: a first sync or one that
\* passes an instant the catalog has rows before and after.
CheckpointLastSyncs == {FirstSync, [tag |-> "iso", t |-> 1]}

NextCheckpoint ==
    \/ \E w \in Workers, u \in SyncUsers, h \in DeviceIds, ls \in CheckpointLastSyncs :
            resp[w] = NoResp /\ FullStart(w, u, h, ls)
    \/ \E w \in Workers : FullQueryAids(w)
    \/ \E w \in Workers : FullQuerySteps(w)
    \/ \E w \in Workers : FullLog(w)
    \/ \E w \in Workers : FullRespond(w)

SpecCheckpoint == InitRead /\ [][NextCheckpoint]_vars

\* ---------------------------------------------- specification DownloadFail
\* Download requests of one caller, for a module that may be absent, inactive
\* or not downloadable, over a storage layer whose writes may fail, while an
\* admin creates, updates and deletes the module.
FailCaller == <<"u1", "d1">>

NextDownloadFail ==
    \/ \E d \in {UNDEF, "false"} : CreateModule(d)
    \/ \E id \in 1..NumModules, a \in BoolParams, d \in BoolParams : UpdateModule(id, a, d)
    \/ \E id \in 1..NumModules : DeleteModule(id)
    \/ \E w \in DownloadWorkers, uuid \in 1..NumModules :
            /\ DownloadsStarted < MaxDownloads
            /\ DownloadStart(w, FailCaller[1], FailCaller[2], uuid, TRUE)
    \/ \E w \in DownloadWorkers, ok \in BOOLEAN : DownloadUpsert(w, ok)
    \/ \E w \in DownloadWorkers, ok \in BOOLEAN : DownloadActivity(w, ok)
    \/ \E w \in DownloadWorkers : DownloadRespond(w, TRUE)

SpecDownloadFail == Init /\ [][NextDownloadFail]_vars

\* ------------------------------------------------------ specification Log
\* The batch logging endpoint called by one user, with and without a device
\* id, with every body, over a storage layer that can fail the statement.
NextLog ==
    \E w \in IngestWorkers, u \in IngestUsers, h \in DeviceHeaders, b \in Bodies,
       ok \in BOOLEAN :
        /\ Len(userActivities) + Len(b.items) <= MaxActivities
        /\ LogBatch(w, u, h, b, ok)

SpecLog == Init /\ [][NextLog]_vars

\* ------------------------------------------------------------ sync claims
\* What the specification of the delta says, written over the tables only.
Ids(rows) == {r.id : r \in rows}

ActiveModulesAfter(T) ==
    {i \in ModuleIdsNow : modules[i].isActive = TRUE /\ ~(modules[i].updatedAt <= T)}
ActiveAidsAfter(T) ==
    {i \in AidIdsNow : mecaAids[i].isActive = TRUE /\ ~(mecaAids[i].updatedAt <= T)}
ActiveModules == {i \in ModuleIdsNow : modules[i].isActive = TRUE}
ActiveAids == {i \in AidIdsNow : mecaAids[i].isActive = TRUE}

\* The steps of a sync/full request of worker w.
RanModulesQuery(w) == pc[w] = "idle" /\ pc'[w] = "full_aids"
RanAidsQuery(w) == pc[w] = "full_aids" /\ pc'[w] \in {"full_steps", "full_log"}
SentFull(w) == pc[w] = "full_respond" /\ pc'[w] = "idle"
\* The steps of a sync/check request of worker w.
RanModulesCount(w) == pc[w] = "idle" /\ pc'[w] = "check_aids"
RanAidsCount(w) == pc[w] = "check_aids" /\ pc'[w] = "idle"

\* C1: sync/full with lastSync = T returns exactly the active modules and
\* diagnostic aids with updatedAt > T.  Each of the two queries returns, with
\* the rows as they are when it runs, exactly the ids of the active items
\* changed after T, and the response carries the two results unchanged.
C1_DeltaIsExact ==
    [][\A w \in Workers :
        /\ (RanModulesQuery(w) /\ loc'[w].lastSync.tag = "iso") =>
              /\ Ids(loc'[w].modules) = ActiveModulesAfter(loc'[w].lastSync.t)
              /\ \A r \in loc'[w].modules :
                    r.version = modules[r.id].version /\ r.updatedAt = modules[r.id].updatedAt
        /\ (RanAidsQuery(w) /\ loc[w].lastSync.tag = "iso") =>
              /\ Ids(loc'[w].mecaAids) = ActiveAidsAfter(loc[w].lastSync.t)
              /\ loc'[w].modules = loc[w].modules
        /\ SentFull(w) =>
              /\ resp'[w].modules = loc[w].modules
              /\ resp'[w].mecaAids = loc[w].mecaAids
    ]_vars

\* A delta for a real T that returned the module changed after T and left out
\* the active diagnostic aid that was not.
C1_Witness ==
    \E w \in Workers :
        /\ resp[w].kind = "full"
        /\ resp[w].lastSync.tag = "iso" /\ resp[w].lastSync.t >= 1
        /\ resp[w].modules # {}
        /\ resp[w].mecaAids = {}
        /\ ActiveAids # {}

\* C2: sync/full without lastSync returns the complete active catalog, the
\* same membership as a delta from any instant before every item's updatedAt.
C2_AbsentSinceIsFullCatalog ==
    [][\A w \in Workers :
        /\ (RanModulesQuery(w) /\ loc'[w].lastSync.tag = "absent") =>
              /\ Ids(loc'[w].modules) = ActiveModules
              /\ \A T \in Times :
                    (\A i \in ModuleIdsNow : T < modules[i].updatedAt)
                        => Ids(loc'[w].modules) = Ids(FullModulesQuery(T))
        /\ (RanAidsQuery(w) /\ loc[w].lastSync.tag = "absent") =>
              /\ Ids(loc'[w].mecaAids) = ActiveAids
              /\ \A T \in Times :
                    (\A i \in AidIdsNow : T < mecaAids[i].updatedAt)
                        => Ids(loc'[w].mecaAids) = Ids(FullMecaAidsQuery(T))
    ]_vars

\* A first sync that returned the active module, changed at the latest
\* instant, and not the inactive diagnostic aid.
C2_Witness ==
    \E w \in Workers :
        /\ resp[w].kind = "full"
        /\ resp[w].lastSync.tag = "absent"
        /\ \E r \in resp[w].modules : r.updatedAt = MaxTime
        /\ resp[w].mecaAids = {}
        /\ Len(mecaAids) >= 1

\* C4: sync/check with lastSync = T counts with the predicate of sync/full:
\* each count is the number of items the delta query for T returns on the
\* rows the count ran on, hasUpdates is true exactly when one of the two
\* counts is positive, and the request writes no table.
C4_CheckCountsTheDelta ==
    [][\A w \in Workers :
        /\ RanModulesCount(w) =>
              /\ loc'[w].modulesCount = Cardinality(FullModulesQuery(loc'[w].lastSync.t))
              /\ loc'[w].modulesCount = Cardinality(ActiveModulesAfter(loc'[w].lastSync.t))
              /\ UNCHANGED tables
        /\ RanAidsCount(w) =>
              /\ resp'[w].mecaAids = Cardinality(FullMecaAidsQuery(loc[w].lastSync.t))
              /\ resp'[w].mecaAids = Cardinality(ActiveAidsAfter(loc[w].lastSync.t))
              /\ resp'[w].modules = loc[w].modulesCount
              /\ resp'[w].hasUpdates = (resp'[w].modules + resp'[w].mecaAids >= 1)
              /\ UNCHANGED tables
    ]_vars

\* A check that found a changed module next to an active aid that is not.
C4_Witness ==
    \E w \in Workers :
        /\ resp[w].kind = "check" /\ resp[w].counted
        /\ resp[w].lastSync.t >= 1
        /\ resp[w].hasUpdates
        /\ resp[w].modules = 1 /\ resp[w].mecaAids = 0
        /\ ActiveAids # {}

\* C5: sync/check without lastSync answers hasUpdates = true whatever the
\* catalog holds.
C5_CheckWithoutSinceHasUpdates ==
    \A w \in Workers :
        (resp[w].kind = "check" /\ resp[w].lastSync.tag = "absent")
            => resp[w].hasUpdates = TRUE

\* The answer was given over a catalog whose items are all inactive.
C5_Witness ==
    \E w \in Workers :
        /\ resp[w].kind = "check" /\ resp[w].lastSync.tag = "absent"
        /\ resp[w].hasUpdates
        /\ Len(modules) >= 1 /\ Len(mecaAids) >= 1
        /\ ActiveModules = {} /\ ActiveAids = {}

\* C3: sync/full is an idempotent read.  Over a catalog nobody edits, two
\* answered requests with the same lastSync carry the same modules and the
\* same diagnostic aids, and a step of a request changes no table but
\* sync_logs, to which it only appends.
C3_FullIsIdempotentRead ==
    /\ [](\A w1, w2 \in Workers :
            (/\ resp[w1].kind = "full" /\ resp[w2].kind = "full"
             /\ resp[w1].lastSync = resp[w2].lastSync)
                => /\ resp[w1].modules = resp[w2].modules
                   /\ resp[w1].mecaAids = resp[w2].mecaAids)
    /\ [][/\ UNCHANGED <<modules, mecaAids, mecaAidSteps, downloadedModules, userActivities>>
          /\ \/ syncLogs' = syncLogs
             \/ /\ Len(syncLogs') = Len(syncLogs) + 1
                /\ SubSeq(syncLogs', 1, Len(syncLogs)) = syncLogs
                /\ \E w \in Workers : pc[w] = "full_log" /\ pc'[w] = "full_respond"
       ]_vars

\* Two answered requests with the same lastSync, both returning items, after
\* both wrote their checkpoint.
C3_Witness ==
    /\ resp["w1"].kind = "full" /\ resp["w2"].kind = "full"
    /\ resp["w1"].lastSync = resp["w2"].lastSync
    /\ resp["w1"].modules # {} /\ resp["w1"].mecaAids # {}
    /\ Len(syncLogs) = 2

\* -------------------------------------------------------- ledger claims
\* The step of a sync/downloads request of worker w that sent a new answer.
SentDownloads(w) == resp'[w] # resp[w] /\ resp'[w].kind = "downloads"

\* The ledger key device of a request: the header, or "unknown" without one.
KeyDevice(header) == IF header = UNDEF THEN "unknown" ELSE header

Stale(dm) == dm.downloadedVersion < modules[dm.moduleId].version

\* C6: after a download of module M by (u, d) the status of (u, d) reports
\* needsUpdate = false for M while M's version equals the recorded version
\* and needsUpdate = true once M was updated, until (u, d) downloads M again:
\* a status answer reports false for a record whose version is current and
\* true for one that is behind, every change of a module's version is an
\* increment that puts all records of the module behind, and a record that
\* is behind stays behind as long as the ledger row is not rewritten.
C6_NeedsUpdateAfterUpdate ==
    [][/\ \A w \in Workers : SentDownloads(w) =>
            \A e \in resp'[w].data :
                /\ e.currentVersion = modules[e.moduleId].version
                /\ (e.downloadedVersion = modules[e.moduleId].version)
                        => (e.needsUpdate = FALSE)
                /\ (e.downloadedVersion < modules[e.moduleId].version)
                        => (e.needsUpdate = TRUE)
       /\ \A m \in ModuleIdsNow : modules'[m].version # modules[m].version =>
            /\ modules'[m].version = modules[m].version + 1
            /\ \A dm \in downloadedModules' :
                    dm.moduleId = m => dm.downloadedVersion < modules'[m].version
       /\ \A dm \in downloadedModules \cap downloadedModules' :
            Stale(dm) => dm.downloadedVersion < modules'[dm.moduleId].version
       /\ \A w \in Workers : (pc[w] = "download_upsert" /\ pc'[w] = "download_activity") =>
            \E dm \in downloadedModules' :
                /\ dm.userId = loc[w].userId /\ dm.moduleId = loc[w].module.id
                /\ dm.deviceId = KeyDevice(IF loc[w].deviceId = NULL THEN UNDEF
                                           ELSE loc[w].deviceId)
                /\ dm.downloadedVersion = loc[w].module.version
    ]_vars

\* The scenario of the specification: downloaded at version 1, updated to
\* version 2, and the status answer says so.
C6_Witness ==
    \E w \in Workers :
        /\ resp[w].kind = "downloads"
        /\ \E e \in resp[w].data :
            /\ e.downloadedVersion = 1 /\ e.currentVersion = 2 /\ e.needsUpdate = TRUE
            /\ \E dm \in downloadedModules :
                    dm.moduleId = e.moduleId /\ dm.userId = e.userId
                        /\ dm.deviceId = e.deviceId /\ Stale(dm)

\* C7: the status of (u, d) holds one entry for every ledger row of user u
\* and device d ("unknown" for a request without device id) and none of
\* another user or device; currentVersion is the module's version when the
\* query runs and needsUpdate is downloadedVersion < currentVersion.
C7_StatusIsTheCallersLedger ==
    [][\A w \in Workers : SentDownloads(w) =>
        LET r == resp'[w]
            mine == {dm \in downloadedModules :
                        dm.userId = r.req.userId /\ dm.deviceId = KeyDevice(r.req.header)}
        IN /\ \A dm \in mine :
                Cardinality({e \in r.data : e.moduleId = dm.moduleId}) = 1
           /\ \A e \in r.data :
                /\ \E dm \in mine :
                        dm.moduleId = e.moduleId
                            /\ dm.downloadedVersion = e.downloadedVersion
                /\ e.userId = r.req.userId /\ e.deviceId = KeyDevice(r.req.header)
                /\ e.currentVersion = modules[e.moduleId].version
                /\ e.needsUpdate = (e.downloadedVersion < e.currentVersion)
    ]_vars

\* A status answer with an entry, given while the ledger also holds a row of
\* the same module for another device of the same user.
C7_Witness ==
    \E w \in Workers :
        /\ resp[w].kind = "downloads"
        /\ \E e \in resp[w].data :
                \E dm \in downloadedModules :
                    /\ dm.moduleId = e.moduleId /\ dm.userId = e.userId
                    /\ dm.deviceId # e.deviceId

\* -------------------------------------------------------- ingest claims
Malformed(items) == {k \in DOMAIN items : items[k].activityType = UNDEF}

\* C8: sync/activities with N >= 1 events of which K lack activityType
\* reports N - K accepted events.
C8_AcceptedIsNMinusK ==
    \A w \in Workers :
        (resp[w].kind = "ingest" /\ resp[w].status = 200 /\ resp[w].total >= 1)
            => /\ resp[w].total = Len(resp[w].activities.items)
               /\ resp[w].synced =
                    resp[w].total - Cardinality(Malformed(resp[w].activities.items))

\* C9: sync/activities with an empty activities array is answered with a
\* validation error.
C9_EmptyBatchRejected ==
    \A w \in Workers :
        (/\ resp[w].kind = "ingest"
         /\ resp[w].activities.kind = "array"
         /\ Len(resp[w].activities.items) = 0)
            => resp[w].status = 400

\* The step of an ingestion request of worker w that sent a new answer.
SentIngest(w) == resp'[w] # resp[w] /\ resp'[w].kind \in {"ingest", "log"}

\* C10: an ingestion request (sync/activities or activities/log) whose
\* activities is absent, null or not an array is answered 400 at once: the
\* loop is never entered with such a body and the answering step writes no
\* user_activities row.
C10_MalformedBodyRejectedWholesale ==
    /\ [](\A w \in Workers :
            /\ (resp[w].kind \in {"ingest", "log"} /\ resp[w].activities.kind # "array")
                    => resp[w].status = 400
            /\ loc[w].op = "ingest" => loc[w].activities.kind = "array")
    /\ [][\A w \in Workers :
            (SentIngest(w) /\ resp'[w].activities.kind # "array")
                => /\ userActivities' = userActivities
                   /\ pc[w] = "idle" /\ pc'[w] = "idle"
       ]_vars

\* A rejected body that is an array-like object holding a well-formed event.
C10_Witness ==
    \E w \in Workers :
        /\ resp[w].kind = "ingest" /\ resp[w].status = 400
        /\ resp[w].activities.kind = "object"
        /\ Len(resp[w].activities.items) >= 1
        /\ Malformed(resp[w].activities.items) = {}
        /\ Len(userActivities) >= 1

\* The row sync/activities stores for the event at position i of request l.
IngestRow(l, i) ==
    [userId |-> l.userId,
     deviceId |-> IF l.deviceId = NULL THEN l.activities.items[i].deviceId ELSE l.deviceId,
     activityType |-> l.activities.items[i].activityType, referenceId |-> NULL]

\* An iteration of the loop of worker w.
RanInsert(w) == pc[w] = "ingest_insert" /\ loc'[w] # loc[w]

\* C11: in sync/activities a failing event never aborts the batch and is
\* never surfaced as an error.  Every iteration either persists its event or
\* logs it, keeps the rows stored so far, and goes on to the next position
\* (so every event after a failed one is attempted, and persisted unless it
\* fails itself); after the last position the answer is a success, with
\* synced = total - failed, even when every event failed.
C11_FailureNeverAbortsBatch ==
    /\ [](\A w \in Workers :
            (resp[w].kind = "ingest" /\ resp[w].activities.kind = "array")
                => /\ resp[w].status = 200
                   /\ resp[w].total = Len(resp[w].activities.items)
                   /\ resp[w].errors \subseteq 1..resp[w].total
                   /\ resp[w].synced = resp[w].total - Cardinality(resp[w].errors))
    /\ [][\A w \in Workers : RanInsert(w) =>
            LET l == loc[w]
                n == Len(l.activities.items)
                errs == IF l.i < n THEN loc'[w].errors ELSE resp'[w].errors
            IN /\ \/ /\ userActivities' = Append(userActivities, IngestRow(l, l.i))
                     /\ errs = l.errors
                  \/ /\ userActivities' = userActivities
                     /\ errs = l.errors \cup {l.i}
               /\ IF l.i < n
                  THEN /\ pc'[w] = "ingest_insert"
                       /\ loc'[w].i = l.i + 1
                       /\ loc'[w].activities = l.activities
                  ELSE /\ pc'[w] = "idle"
                       /\ resp'[w].kind = "ingest" /\ resp'[w].status = 200
       ]_vars

\* A batch of two well-formed events whose first insert failed in storage:
\* the second is persisted and the answer is "1 of 2".
C11_Witness ==
    \E w \in Workers :
        /\ resp[w].kind = "ingest" /\ resp[w].status = 200
        /\ resp[w].total = 2 /\ resp[w].errors = {1} /\ resp[w].synced = 1
        /\ resp[w].header # UNDEF
        /\ Malformed(resp[w].activities.items) = {}
        /\ Len(userActivities) >= 1

\* C12: a batch submitted a second time by the same (user, device) leaves
\* user_activities with the rows it held after the first submission.
C12_RetryLeavesSameRows ==
    (/\ resp["w1"].kind = "ingest" /\ resp["w1"].status = 200
     /\ resp["w2"].kind = "ingest" /\ resp["w2"].status = 200
     /\ resp["w2"].activities = resp["w1"].activities
     /\ resp["w2"].header = resp["w1"].header)
        => Len(userActivities) = resp["w1"].synced

\* The step of an activities/single request of worker w.
SentSingle(w) ==
    /\ pc[w] = "idle" /\ pc'[w] = "idle"
    /\ resp'[w].kind = "single"
    /\ <<resp'[w], userActivities'>> # <<resp[w], userActivities>>

\* C20: activities/single fails the whole call.  Without activityType the
\* answer is 400 and no row is written; with it, either exactly one row, the
\* caller's event, is appended and the answer is a success, or no row is
\* written and the answer is a server error.
C20_SingleFailsWholeCall ==
    [][\A w \in Workers : SentSingle(w) =>
        LET r == resp'[w]
            present == r.body.activityType \notin {UNDEF, ""}
        IN /\ ~present => (r.status = 400 /\ userActivities' = userActivities)
           /\ present => r.status \in {200, 500}
           /\ r.status = 200 =>
                /\ Len(userActivities') = Len(userActivities) + 1
                /\ SubSeq(userActivities', 1, Len(userActivities)) = userActivities
                /\ userActivities'[Len(userActivities')].activityType = r.body.activityType
                /\ userActivities'[Len(userActivities')].deviceId
                        = (IF r.header = UNDEF THEN NULL ELSE r.header)
           /\ r.status # 200 => userActivities' = userActivities
    ]_vars

\* A call answered with a server error after an earlier call was stored.
C20_Witness ==
    \E w \in Workers :
        /\ resp[w].kind = "single" /\ resp[w].status = 500
        /\ resp[w].body.activityType = "module_view"
        /\ Len(userActivities) >= 1
        /\ userActivities[Len(userActivities)].deviceId = NULL

\* ------------------------------------------------------- content claims
InactiveModules == {i \in ModuleIdsNow : modules[i].isActive = FALSE}
InactiveAids == {i \in AidIdsNow : mecaAids[i].isActive = FALSE}

\* C16: deletion is a soft delete.  No step removes a row of modules or
\* meca_aids; a step that deactivates an item changes nothing of it but
\* isActive and updatedAt; and every delta query and every count, whatever
\* lastSync is given, leaves out the items that are inactive when it runs.
C16_SoftDeleteExcludesFromSync ==
    [][/\ Len(modules') >= Len(modules) /\ Len(mecaAids') >= Len(mecaAids)
       /\ \A i \in ModuleIdsNow :
            (modules[i].isActive /\ ~modules'[i].isActive) =>
                /\ modules'[i].version = modules[i].version
                /\ modules'[i].isDownloadable = modules[i].isDownloadable
                /\ \A j \in ModuleIdsNow \ {i} : modules'[j] = modules[j]
       /\ \A i \in AidIdsNow :
            (mecaAids[i].isActive /\ ~mecaAids'[i].isActive) =>
                /\ mecaAids'[i].version = mecaAids[i].version
                /\ \A j \in AidIdsNow \ {i} : mecaAids'[j] = mecaAids[j]
       /\ \A w \in Workers :
            /\ RanModulesQuery(w) => Ids(loc'[w].modules) \cap InactiveModules = {}
            /\ RanAidsQuery(w) => Ids(loc'[w].mecaAids) \cap InactiveAids = {}
            /\ RanModulesCount(w) =>
                    loc'[w].modulesCount <= Cardinality(ModuleIdsNow \ InactiveModules)
            /\ RanAidsCount(w) =>
                    resp'[w].mecaAids <= Cardinality(AidIdsNow \ InactiveAids)
    ]_vars

\* A first sync in flight whose modules query returned a module that was
\* deleted since, and whose aids query left out the only, inactive, aid.
C16_Witness ==
    \E w \in Workers :
        /\ pc[w] = "full_log"
        /\ loc[w].lastSync.tag = "absent"
        /\ \E r \in loc[w].modules : r.id \in InactiveModules
        /\ loc[w].mecaAids = {}
        /\ InactiveAids # {}

\* C13: every successful update of a content item, module or diagnostic
\* aid, increases its version by exactly 1, and nothing else changes a
\* version.  A step that changes a stored item and leaves it active is an
\* update of the item (a deletion leaves it inactive): it raises the version
\* by 1; a version never changes otherwise, and never in a step of a sync,
\* download or activity request.
C13_UpdateBumpsVersion ==
    [][/\ \A i \in ModuleIdsNow :
            /\ (modules'[i] # modules[i] /\ modules'[i].isActive)
                    => modules'[i].version = modules[i].version + 1
            /\ modules'[i].version \in {modules[i].version, modules[i].version + 1}
       /\ \A i \in AidIdsNow :
            /\ (mecaAids'[i] # mecaAids[i] /\ mecaAids'[i].isActive)
                    => mecaAids'[i].version = mecaAids[i].version + 1
            /\ mecaAids'[i].version \in {mecaAids[i].version, mecaAids[i].version + 1}
       /\ (pc' # pc \/ resp' # resp) =>
            /\ \A i \in ModuleIdsNow : modules'[i].version = modules[i].version
            /\ \A i \in AidIdsNow : mecaAids'[i].version = mecaAids[i].version
    ]_vars

\* ------------------------------------------------- download ledger claims
LedgerKey(r) == <<r.userId, r.moduleId, r.deviceId>>

\* The upsert statement of the download request of worker w.
RanUpsert(w) == pc[w] = "download_upsert" /\ pc'[w] = "download_activity"

\* The ledger key the download request of worker w writes.
RequestKey(w) ==
    <<loc[w].userId, loc[w].module.id,
      IF loc[w].deviceId = NULL THEN "unknown" ELSE loc[w].deviceId>>

\* C14: the ledger holds at most one record per (userId, moduleId,
\* deviceId).  The first download of a key creates its record; every later
\* one replaces downloadedVersion and downloadedAt by the version the
\* request read and the time of the statement, whether or not that version
\* is newer than the stored one; records of other keys are left as they are,
\* and no other step writes the ledger.
C14_LedgerIsLastWriteWins ==
    /\ [](\A r, q \in downloadedModules : LedgerKey(r) = LedgerKey(q) => r = q)
    /\ [][/\ \A w \in Workers : RanUpsert(w) =>
                /\ \E r \in downloadedModules' :
                        /\ LedgerKey(r) = RequestKey(w)
                        /\ r.downloadedVersion = loc[w].module.version
                        /\ r.downloadedAt = now
                /\ \A r \in downloadedModules :
                        LedgerKey(r) # RequestKey(w) => r \in downloadedModules'
                /\ Cardinality(downloadedModules') =
                        Cardinality(downloadedModules)
                            + (IF \E r \in downloadedModules : LedgerKey(r) = RequestKey(w)
                               THEN 0 ELSE 1)
          /\ (\A w \in Workers : ~RanUpsert(w)) => downloadedModules' = downloadedModules
       ]_vars

\* A record at version 1, written at a later time than the answer of a
\* request that had recorded version 2 for the same key: the older version
\* replaced the newer one.
C14_Witness ==
    \E w \in Workers : \E r \in downloadedModules :
        /\ resp[w].kind = "download" /\ resp[w].status = 200
        /\ resp[w].module.id = r.moduleId
        /\ resp[w].module.version = 2
        /\ r.downloadedVersion = 1
        /\ r.downloadedAt = MaxTime

\* C15: two download requests of one key that run concurrently, with a
\* module update between their statements, leave one record for the key:
\* there is never a second row for a key, every upsert leaves the key's
\* record at the version of the request that ran it (so the record is that
\* of the upsert applied last), and a request that found its module is
\* answered 200, never with an error.
C15_ConcurrentDownloadsRaceBenignly ==
    /\ [](/\ \A k \in {LedgerKey(r) : r \in downloadedModules} :
                Cardinality({r \in downloadedModules : LedgerKey(r) = k}) = 1
          /\ \A w \in Workers :
                resp[w].kind = "download" => resp[w].status \in {200, 404}
          /\ \A w \in Workers :
                pc[w] \in {"download_activity", "download_attachments"}
                    => \E r \in downloadedModules : LedgerKey(r) = RequestKey(w))
    /\ [][\A w \in Workers :
            /\ RanUpsert(w) =>
                \A r \in downloadedModules' :
                    LedgerKey(r) = RequestKey(w)
                        => r.downloadedVersion = loc[w].module.version
            /\ (loc[w].op = "download" /\ pc'[w] = "idle") =>
                (resp'[w].kind = "download" /\ resp'[w].status = 200)
       ]_vars

\* Both requests in flight on the same key after a module update between
\* their reads: one has written the version it read, the other read a newer
\* version and is about to write it.
C15_Witness ==
    /\ pc["w1"] = "download_activity" /\ pc["w2"] = "download_upsert"
    /\ RequestKey("w1") = RequestKey("w2")
    /\ loc["w1"].module.version < loc["w2"].module.version
    /\ \E r \in downloadedModules :
            LedgerKey(r) = RequestKey("w1")
                /\ r.downloadedVersion = loc["w1"].module.version

\* C17: a ledger record, once created, is there in every later state.  No
\* step removes the record of a key, the step that deactivates a module
\* leaves the ledger as it is, and a status answer lists every record of the
\* caller, those of inactive modules included.
C17_LedgerRecordPersists ==
    [][/\ \A dm \in downloadedModules :
            \E q \in downloadedModules' : LedgerKey(q) = LedgerKey(dm)
       /\ \A i \in ModuleIdsNow :
            (modules[i].isActive /\ ~modules'[i].isActive)
                => downloadedModules' = downloadedModules
       /\ \A w \in Workers : SentDownloads(w) =>
            \A dm \in downloadedModules :
                (dm.userId = resp'[w].req.userId
                    /\ dm.deviceId = KeyDevice(resp'[w].req.header))
                => \E e \in resp'[w].data :
                        /\ e.moduleId = dm.moduleId
                        /\ e.downloadedVersion = dm.downloadedVersion
    ]_vars

\* A status answer that lists the record of a module that is inactive.
C17_Witness ==
    \E w \in Workers :
        /\ resp[w].kind = "downloads"
        /\ \E e \in resp[w].data :
            /\ ~modules[e.moduleId].isActive
            /\ e.currentVersion = modules[e.moduleId].version
            /\ \E dm \in downloadedModules :
                    LedgerKey(dm) = <<e.userId, e.moduleId, e.deviceId>>

UnknownRows(rows) == {r \in rows : r.deviceId = "unknown"}

\* C18: a request without device id uses "unknown" as the device of the
\* ledger key, in the download and in the status alike.  The ledger holds no
\* row without a device and at most one "unknown" row per (user, module); a
\* device-less download writes the "unknown" row of its user and module and
\* no row of a real device; a device-less status lists exactly the
\* "unknown" rows of its user; a download with a real device id leaves the
\* "unknown" rows as they are and a status with one lists none of them.
C18_UnknownIsTheDevicelessKey ==
    /\ [](/\ \A r \in downloadedModules : r.deviceId \notin {NULL, UNDEF, ""}
          /\ \A r, q \in UnknownRows(downloadedModules) :
                (r.userId = q.userId /\ r.moduleId = q.moduleId) => r = q)
    /\ [][\A w \in Workers :
            /\ RanUpsert(w) =>
                IF loc[w].deviceId = NULL
                THEN /\ \E r \in UnknownRows(downloadedModules') :
                            /\ r.userId = loc[w].userId
                            /\ r.moduleId = loc[w].module.id
                            /\ r.downloadedVersion = loc[w].module.version
                     /\ downloadedModules' \ UnknownRows(downloadedModules')
                            = downloadedModules \ UnknownRows(downloadedModules)
                ELSE UnknownRows(downloadedModules') = UnknownRows(downloadedModules)
            /\ SentDownloads(w) =>
                IF resp'[w].req.header = UNDEF
                THEN /\ {e.moduleId : e \in resp'[w].data} =
                            {r.moduleId : r \in {q \in UnknownRows(downloadedModules) :
                                                    q.userId = resp'[w].req.userId}}
                     /\ \A e \in resp'[w].data : e.deviceId = "unknown"
                ELSE \A e \in resp'[w].data : e.deviceId # "unknown"
       ]_vars

\* Two device-less downloads of a module by one user, the second after an
\* update of the module, share the one record, now at version 2, which the
\* user's device-less status lists.
C18_Witness ==
    \E w \in Workers :
        /\ Len(userActivities) = 2
        /\ userActivities[1].deviceId = NULL /\ userActivities[2].deviceId = NULL
        /\ userActivities[1].userId = userActivities[2].userId
        /\ userActivities[1].referenceId = userActivities[2].referenceId
        /\ Cardinality(downloadedModules) = 1
        /\ resp[w].kind = "downloads" /\ resp[w].req.header = UNDEF
        /\ \E e \in resp[w].data : e.deviceId = "unknown" /\ e.downloadedVersion = 2

\* ----------------------------------------------------- checkpoint claims
\* The step of a sync/status request of worker w that sent a new answer.
SentStatus(w) == resp'[w] # resp[w] /\ resp'[w].kind = "status"

\* The sync_logs rows written by the sync/full requests of a caller.
OwnCheckpoints(userId, header) ==
    {k \in DOMAIN syncLogs :
        /\ syncLogs[k].userId = userId
        /\ syncLogs[k].deviceId = (IF header = UNDEF THEN NULL ELSE header)}

\* C19: sync/status answers every caller, with or without a device id, with
\* the checkpoint its latest sync/full wrote, and with none when it never
\* synced; the answer is never a checkpoint of another user or device.
C19_StatusIsLatestOwnCheckpoint ==
    [][\A w \in Workers : SentStatus(w) =>
        LET own == OwnCheckpoints(resp'[w].req.userId, resp'[w].req.header)
        IN IF own = {}
           THEN resp'[w].logs = <<>>
           ELSE resp'[w].logs = <<syncLogs[CHOOSE k \in own : \A j \in own : j <= k]>>
    ]_vars

\* ---------------------------------------------------------- steps claims
\* The steps fetch of the sync/full request of worker w.
RanStepsQuery(w) == pc[w] = "full_steps" /\ pc'[w] = "full_log"

StepsOfAid(id) == {s \in mecaAidSteps : s.mecaAidId = id}

\* C25: in a sync/full result every diagnostic aid carries exactly its own
\* steps: the steps list of an aid holds every step row whose parent is the
\* aid, once, in ascending step number, and no other row.  The steps of all
\* returned aids come from one fetch: a request runs the steps statement
\* once when it returns aids and not at all when it returns none.
C25_AidsCarryTheirOwnSteps ==
    /\ [][\A w \in Workers : RanStepsQuery(w) =>
            /\ {ma.id : ma \in loc'[w].mecaAids} = {ma.id : ma \in loc[w].mecaAids}
            /\ \A ma \in loc'[w].mecaAids :
                /\ {ma.steps[k] : k \in DOMAIN ma.steps} = StepsOfAid(ma.id)
                /\ Len(ma.steps) = Cardinality(StepsOfAid(ma.id))
                /\ \A j, k \in DOMAIN ma.steps :
                        j < k => ma.steps[j].stepNumber < ma.steps[k].stepNumber
            /\ loc'[w].stepQueries = loc[w].stepQueries + 1
       ]_vars
    /\ [](\A w \in Workers : resp[w].kind = "full" =>
            /\ resp[w].stepQueries = (IF resp[w].mecaAids = {} THEN 0 ELSE 1)
            /\ \A ma \in resp[w].mecaAids :
                    \A k \in DOMAIN ma.steps : ma.steps[k].mecaAidId = ma.id)

\* A result with two aids, one with two steps and one with one, obtained
\* with one steps statement.
C25_Witness ==
    \E w \in Workers :
        /\ resp[w].kind = "full" /\ resp[w].stepQueries = 1
        /\ \E a, b \in resp[w].mecaAids :
                /\ a.id # b.id
                /\ Len(a.steps) = 2 /\ Len(b.steps) = 1

\* ---------------------------------------------------- convergence claims
\* The row r of a result carries the item as the table row holds it now.
Delivers(r, row) ==
    r.id = row.id /\ r.version = row.version /\ r.updatedAt = row.updatedAt

\* C22: a device that passes the syncedAt of its previous sync/full as
\* lastSync misses no update.  When its next request runs a content query,
\* every active item is, as it is stored then, either in the result of
\* that query or in the answer of the previous request.
C22_IncrementalSyncConverges ==
    [][/\ RanModulesQuery("w2") =>
            \A i \in ActiveModules :
                \/ \E r \in loc'["w2"].modules : Delivers(r, ModuleRow(i))
                \/ \E r \in resp["w1"].modules : Delivers(r, ModuleRow(i))
       /\ RanAidsQuery("w2") =>
            \A i \in ActiveAids :
                \/ \E r \in loc'["w2"].mecaAids : Delivers(r, AidRow(i))
                \/ \E r \in resp["w1"].mecaAids : Delivers(r, AidRow(i))
    ]_vars

\* C23: updatedAt is set by every mutation of a content item and strictly
\* increases with each version bump, so the delta computed with since equal
\* to the item's previous updatedAt holds the item after an update.  A step
\* that changes a stored item and leaves it active leaves its updatedAt
\* later than it was, and so does every step that raises its version.
C23_UpdateAdvancesUpdatedAt ==
    [][/\ \A i \in ModuleIdsNow :
            /\ (modules'[i] # modules[i] /\ modules'[i].isActive)
                    => modules'[i].updatedAt > modules[i].updatedAt
            /\ modules'[i].version > modules[i].version
                    => modules'[i].updatedAt > modules[i].updatedAt
       /\ \A i \in AidIdsNow :
            /\ (mecaAids'[i] # mecaAids[i] /\ mecaAids'[i].isActive)
                    => mecaAids'[i].updatedAt > mecaAids[i].updatedAt
            /\ mecaAids'[i].version > mecaAids[i].version
                    => mecaAids'[i].updatedAt > mecaAids[i].updatedAt
    ]_vars

\* ----------------------------------------------------- checkpoint claims
\* The checkpoint insert of the sync/full request of worker w.
RanLog(w) == pc[w] = "full_log" /\ pc'[w] = "full_respond"

\* The requests that have passed their checkpoint insert.
Logged == {w \in Workers : pc[w] = "full_respond" \/ resp[w].kind = "full"}

\* C24: every successful sync/full appends exactly one checkpoint for its
\* caller, whose item count is the number of modules plus the number of
\* diagnostic aids of the returned delta, and checkpoints are append-only:
\* no step changes or removes a stored checkpoint, each request adds one row
\* at its insert and no other step adds any, so that two concurrent requests
\* of the same user and device leave one checkpoint each; the answer of a
\* request carries as many items as the checkpoint it wrote counts.
C24_EachSyncAppendsOneCheckpoint ==
    [][/\ Len(syncLogs') >= Len(syncLogs)
       /\ SubSeq(syncLogs', 1, Len(syncLogs)) = syncLogs
       /\ Len(syncLogs') = Len(syncLogs) + Cardinality({w \in Workers : RanLog(w)})
       /\ Len(syncLogs') = Cardinality(Logged')
       /\ \A w \in Workers : RanLog(w) =>
            LET row == syncLogs'[Len(syncLogs')]
            IN /\ row.userId = loc[w].userId /\ row.deviceId = loc[w].deviceId
               /\ row.itemsSynced =
                    Cardinality(loc[w].modules) + Cardinality(loc[w].mecaAids)
       /\ \A w \in Workers : SentFull(w) =>
            \E k \in 1..Len(syncLogs') :
                /\ syncLogs'[k].userId = loc[w].userId
                /\ syncLogs'[k].itemsSynced =
                        Cardinality(resp'[w].modules) + Cardinality(resp'[w].mecaAids)
    ]_vars

\* Both requests were in flight together, both have written their checkpoint,
\* for the same user and device, and they counted different deltas.
C24_Witness ==
    /\ pc["w1"] = "full_respond" /\ pc["w2"] = "full_respond"
    /\ Len(syncLogs) = 2
    /\ syncLogs[1].userId = syncLogs[2].userId
    /\ syncLogs[1].deviceId = syncLogs[2].deviceId
    /\ syncLogs[1].itemsSynced # syncLogs[2].itemsSynced

\* --------------------------------------------------- ledger version claims
\* C26: in every reachable state, with downloads and module updates running
\* one after the other or interleaved, each ledger record is of a stored
\* module and its downloadedVersion is at most the current version of that
\* module: the version a download request holds is one the module row had,
\* and no step lowers the version of a module.
C26_DownloadedVersionNeverAhead ==
    /\ [](/\ \A r \in downloadedModules :
                /\ r.moduleId \in ModuleIdsNow
                /\ r.downloadedVersion <= modules[r.moduleId].version
          /\ \A w \in Workers : loc[w].op = "download" =>
                loc[w].module.version <= modules[loc[w].module.id].version)
    /\ [][\A i \in ModuleIdsNow : modules'[i].version >= modules[i].version]_vars

\* A request read version 1, the module was updated while the request was in
\* flight, and the request has recorded the version it read.
C26_Witness ==
    \E w \in Workers : \E r \in downloadedModules :
        /\ pc[w] = "download_activity"
        /\ LedgerKey(r) = RequestKey(w)
        /\ r.downloadedVersion = loc[w].module.version
        /\ r.downloadedVersion < modules[r.moduleId].version

\* ------------------------------------------------ download failure claims
\* Module i is stored, active and downloadable.
Offered(i) == i \in ModuleIdsNow /\ modules[i].isActive /\ modules[i].isDownloadable

\* The module lookup of a download request of worker w found its module.
Admitted(w) == pc[w] = "idle" /\ pc'[w] = "download_upsert"

\* The download request of worker w is answered at its module lookup.
Refused(w) ==
    pc[w] = "idle" /\ pc'[w] = "idle" /\ resp'[w] # resp[w] /\ resp'[w].kind = "download"

\* C21: a download request for a module that does not exist, is inactive or
\* is not downloadable is answered 404 and has no effect.  A request goes on
\* to its writes only if its module is stored, active and downloadable when
\* it is looked up; a request answered at the lookup is answered 404, for a
\* module that is not, and that step leaves the ledger and the activity log
\* as they are; the ledger and the log change only in steps of a request that
\* found its module.
C21_UnavailableModuleIsNotFound ==
    [][/\ \A w \in Workers :
            /\ Admitted(w) => Offered(loc'[w].module.id)
            /\ Refused(w) =>
                    /\ resp'[w].status = 404
                    /\ ~Offered(resp'[w].req)
                    /\ downloadedModules' = downloadedModules
                    /\ userActivities' = userActivities
       /\ (downloadedModules' # downloadedModules \/ userActivities' # userActivities)
            => \E w \in Workers : loc[w].op = "download"
    ]_vars

\* A module the caller downloaded was withdrawn from download, and the next
\* request for it was answered 404 with the record and its activity in place.
C21_Witness ==
    \E w \in Workers :
        /\ resp[w].kind = "download" /\ resp[w].status = 404
        /\ resp[w].req \in ModuleIdsNow
        /\ modules[resp[w].req].isActive /\ ~modules[resp[w].req].isDownloadable
        /\ Cardinality(downloadedModules) = 1
        /\ Len(userActivities) = 1

\* The ledger upsert and the activity insert of the download request of w,
\* executed or failed.
TriedUpsert(w) == pc[w] = "download_upsert" /\ pc'[w] # pc[w]
TriedActivity(w) == pc[w] = "download_activity" /\ pc'[w] # pc[w]

\* C27: a download request writes the ledger record first and the
\* 'module_download' activity second, each as one statement and with no
\* transaction around the two.  The upsert step changes the ledger only, to
\* hold the request's record, or fails: then the request is answered 500
\* and ends with the ledger and the activity log as they were.  The activity
\* step runs with the request's record in the ledger and appends one
\* 'module_download' event, or fails: then the request is answered 500 and
\* ends, and the record written by its upsert is still in the ledger.
C27_UpsertThenActivityNoTransaction ==
    [][\A w \in Workers :
        /\ TriedUpsert(w) =>
            /\ userActivities' = userActivities
            /\ \/ /\ pc'[w] = "download_activity"
                   /\ \E r \in downloadedModules' :
                        /\ LedgerKey(r) = RequestKey(w)
                        /\ r.downloadedVersion = loc[w].module.version
                   /\ resp'[w] = resp[w]
               \/ /\ pc'[w] = "idle"
                   /\ resp'[w].kind = "download" /\ resp'[w].status = 500
                   /\ downloadedModules' = downloadedModules
        /\ TriedActivity(w) =>
            /\ downloadedModules' = downloadedModules
            /\ \E r \in downloadedModules' : LedgerKey(r) = RequestKey(w)
            /\ \/ /\ pc'[w] = "download_attachments"
                   /\ Len(userActivities') = Len(userActivities) + 1
                   /\ SubSeq(userActivities', 1, Len(userActivities)) = userActivities
                   /\ userActivities'[Len(userActivities')].activityType = "module_download"
                   /\ userActivities'[Len(userActivities')].referenceId = loc[w].module.id
                   /\ resp'[w] = resp[w]
               \/ /\ pc'[w] = "idle"
                   /\ resp'[w].kind = "download" /\ resp'[w].status = 500
                   /\ userActivities' = userActivities
    ]_vars

\* A request was answered 500 after its upsert: the ledger holds a record
\* and the activity log has no event for it.
C27_Witness ==
    \E w \in Workers :
        /\ resp[w].kind = "download" /\ resp[w].status = 500
        /\ pc[w] = "idle"
        /\ Cardinality(downloadedModules) = 1
        /\ userActivities = <<>>

\* ------------------------------------------------------ batch log claims
\* C28: activities/log is all-or-nothing.  Each request is one step, which
\* keeps the rows stored before it; a body whose activities is absent, not
\* an array or empty is answered 400 and stores nothing; a non-empty array of
\* N events either stores N rows, one per event in order, and is answered
\* 200 with N logged, or stores none and is answered 500; and it is answered
\* 500 when an event has no activityType.
C28_LogIsAllOrNothing ==
    [][\A w \in IngestWorkers : resp'[w].kind = "log" =>
        LET b == resp'[w].activities
            n == Len(b.items)
            before == Len(userActivities)
            added == Len(userActivities') - before
        IN /\ added >= 0
           /\ SubSeq(userActivities', 1, before) = userActivities
           /\ (b.kind # "array" \/ n = 0) => (resp'[w].status = 400 /\ added = 0)
           /\ (b.kind = "array" /\ n > 0) =>
                /\ resp'[w].status \in {200, 500}
                /\ resp'[w].status = 500 => added = 0
                /\ resp'[w].status = 200 =>
                        /\ added = n /\ resp'[w].logged = n
                        /\ \A k \in 1..n :
                              userActivities'[before + k].activityType
                                    = b.items[k].activityType
                /\ (\E k \in 1..n : b.items[k].activityType = UNDEF)
                        => resp'[w].status = 500
    ]_vars

\* A batch of two events, the second without activityType, was answered 500
\* and stored nothing, after a batch that was stored whole.
C28_Witness ==
    \E w \in IngestWorkers :
        /\ resp[w].kind = "log" /\ resp[w].status = 500
        /\ resp[w].activities.kind = "array"
        /\ Len(resp[w].activities.items) = 2
        /\ resp[w].activities.items[1].activityType # UNDEF
        /\ resp[w].activities.items[2].activityType = UNDEF
        /\ Len(userActivities) = 1

====
